---- MODULE Spec2Model ----
(***************************************************************************)
(* A model of the kanidm query server (kanidmd/src/lib/server.rs) and of   *)
(* the cached storage layer below it (kanidmd/src/lib/be/idl_arc_sqlite.rs).*)
(*                                                                         *)
(* The specifications of the module share its variables:                   *)
(*   SpecQS     one write transaction at a time over the backend: write()  *)
(*              taking its handles one by one, the create / modify /       *)
(*              delete / purge handlers, and commit() committing its parts *)
(*              one by one while the next write() waits for them;          *)
(*   SpecTxn    the concurrent view: writers acquiring the schema, cache,  *)
(*              storage and access control handles one by one, committing  *)
(*              them one by one, and readers taking their snapshots;       *)
(*   SpecLife   the life of an entry: recycled, revived, tombstone, purged;*)
(*   SpecRevive revive_recycled on groups and their members;               *)
(*   SpecSchema classes defined by stored entries and the reload at commit,*)
(*              which fails on a schema that does not validate;            *)
(*   SpecNames  name_to_uuid, uuid_to_name and clone_value;                *)
(*   SpecCache  the operations of the cached layer of one writer;          *)
(*   SpecInit   initialise_helper and the initialisations run again;       *)
(*   SpecMigrate internal_migrate_or_create on stored and missing entries; *)
(*   SpecInterval the interval actor sending its purges to the write       *)
(*              server, which handles them between requests of clients;    *)
(*   SpecIntervalFair the same under the scheduling of the actors;         *)
(*   SpecCid    the change identifier each operation leaves on entries;    *)
(*   SpecDelete deletes and modifies aimed at hidden and missing entries;  *)
(*   SpecUnix   the cache layer of the unix client, online and offline.    *)
(***************************************************************************)
EXTENDS Integers, Sequences, FiniteSets, TLC

\* ------------------------------------------------------------------ bounds
\* Query server operations run in total in a behaviour of SpecQS.
MaxOps == 2
\* Write transactions opened in total in a behaviour of SpecQS.
MaxWrites == MaxOps

\* ------------------------------------------------------- program constants
\* constants.rs is not part of the sources at hand: the two ages are scaled
\* to one second each, which keeps "older than", "exactly as old as" and
\* "younger than" within MaxTime.
RECYCLEBIN_MAX_AGE == 1
CHANGELOG_MAX_AGE == 1

\* The timestamps a caller passes to write(ts): long enough for an entry to
\* be recycled, turned into a tombstone and purged, with one second to spare.
MaxTime == RECYCLEBIN_MAX_AGE + CHANGELOG_MAX_AGE + 1

\* The uuids an entry can carry.
Uuids == {1, 2}
Times == 0..MaxTime

\* ------------------------------------------------------------------ entries
CoreClasses ==
    {"object", "person", "group", "classtype", "attributetype",
     "access_control_profile", "recycled", "tombstone"}
\* A class that exists only once a classtype entry defining it is loaded.
DynClasses == {"testclass"}
Classes == CoreClasses \cup DynClasses
\* The classes of the four kinds of access control profile, in the order
\* reload_accesscontrols loads them.
AcpClasses ==
    <<"access_control_search", "access_control_create",
      "access_control_modify", "access_control_delete">>
AcpKinds == {AcpClasses[i] : i \in 1..Len(AcpClasses)}

\* The class sets the create requests of the model carry (the tests create
\* recycled entries and tombstones directly through an internal create).
CreateClassSets ==
    { {"object", "person"},
      {"object", "classtype"},
      {"object", "attributetype"},
      {"object", "access_control_profile"},
      {"object", "testclass"},
      {"object", "person", "recycled"},
      {"tombstone", "object"} }

\* Entry<EntrySealed, EntryCommitted>: uuid, class, last_modified_cid, and the
\* reference attributes member (written by requesters), memberof and
\* directmemberof (written by the memberof plugin).
attribute_value_pres(e, c) == c \in e.class

\* An entry as a requester writes it.
new_entry(u, cls, mem) == [uuid |-> u, class |-> cls, member |-> mem]

\* An entry with a name attribute, as the tests write their persons.
new_named_entry(u, cls, nm) == [uuid |-> u, class |-> cls, member |-> {}, name |-> nm]

\* Entry::get_ava("name") is Some
HasName(e) == "name" \in DOMAIN e

\* An access control profile of kind k, with its acp_enable attribute.
new_acp_entry(u, k, enable) ==
    [uuid |-> u, class |-> {"object", "access_control_profile", k},
     member |-> {}, acp_enable |-> enable]

\* Entry::get_ava("acp_enable") is Some
HasAcpEnable(e) == "acp_enable" \in DOMAIN e

\* A class definition: a classtype entry whose may attribute names the
\* attributes an entry of the class can have.
new_class_entry(u, may) ==
    [uuid |-> u, class |-> {"object", "classtype"}, member |-> {}, may |-> may]

\* Entry::get_ava("may") is Some
HasMay(e) == "may" \in DOMAIN e

assign_cid(e, cid) ==
    IF HasName(e)
    THEN [uuid |-> e.uuid, class |-> e.class, cid |-> cid, member |-> e.member,
          memberof |-> {}, directmemberof |-> {}, name |-> e.name]
    ELSE IF HasMay(e)
    THEN [uuid |-> e.uuid, class |-> e.class, cid |-> cid, member |-> e.member,
          memberof |-> {}, directmemberof |-> {}, may |-> e.may]
    ELSE IF HasAcpEnable(e)
    THEN [uuid |-> e.uuid, class |-> e.class, cid |-> cid, member |-> e.member,
          memberof |-> {}, directmemberof |-> {}, acp_enable |-> e.acp_enable]
    ELSE [uuid |-> e.uuid, class |-> e.class, cid |-> cid, member |-> e.member,
          memberof |-> {}, directmemberof |-> {}]

invalidate(e, cid) == [e EXCEPT !.cid = cid]

to_recycled(e) == [e EXCEPT !.class = @ \cup {"recycled"}]

\* A to_tombstone that leaves last_modified_cid as it was.
to_tombstone_keep_cid(e, cid) ==
    [uuid |-> e.uuid, class |-> {"tombstone", "object"}, cid |-> e.cid,
     member |-> {}, memberof |-> {}, directmemberof |-> {}]

\* Entry::to_tombstone(cid): uuid and class = {tombstone, object} only, tagged
\* with the CID of the transaction that makes the tombstone.
to_tombstone(e, cid) ==
    [uuid |-> e.uuid, class |-> {"tombstone", "object"}, cid |-> cid,
     member |-> {}, memberof |-> {}, directmemberof |-> {}]

\* Cid::sub_secs: the timestamp less secs, or an error (-1) on underflow.
sub_secs(cid, secs) == IF cid >= secs THEN cid - secs ELSE -1

\* ------------------------------------------------------------------ strings
\* The strings a requester passes as a name or as a value: the names of
\* test_qs_name_to_uuid, and the textual form of three uuids.
NameStrings == {"testperson1", "tEsTpErSoN1", "testpers", "tEsTpErS", "testperson2"}
UuidStrings == {"uuid-1", "uuid-2", "uuid-3"}
ValueStrings == NameStrings \cup UuidStrings

\* str::to_lowercase on the strings of the model.
to_lowercase(s) ==
    CASE s = "tEsTpErSoN1" -> "testperson1"
      [] s = "tEsTpErS" -> "testpers"
      [] s = "NaMe" -> "name"
      [] s = "Member" -> "member"
      [] OTHER -> s

\* A comparison of names that takes the strings as they are written.
iutf8_eq_exact(a, b) == a = b

\* The comparison of two UTF8STRING_INSENSITIVE values: both sides are
\* lower-cased when the value is built (Value::new_iutf8s,
\* PartialValue::new_iutf8s) and compared whole.
iutf8_eq(a, b) == to_lowercase(a) = to_lowercase(b)

\* The uuid no entry has (UUID_DOES_NOT_EXIST).
UUID_DOES_NOT_EXIST == 99
\* Uuid::parse_str does not accept the string.
NotAUuid == 0

\* Value::new_uuids / Value::new_refer_s: the uuid the string parses to.
new_uuids(s) ==
    CASE s = "uuid-1" -> 1
      [] s = "uuid-2" -> 2
      [] s = "uuid-3" -> 3
      [] OTHER -> NotAUuid

\* ------------------------------------------------------------------ filters
\* A filter is a leaf wrapped by filter_all! (w = "all": nothing added),
\* filter! / to_ignore_hidden (w = "hidden": AndNot(Or(class=tombstone,
\* class=recycled))) or filter_rec! / to_recycled (w = "recycled":
\* And(class=recycled, f)).
Wraps == {"all", "hidden", "recycled"}

f_class(c) == [t |-> "class", c |-> c, u |-> 0, n |-> 0]
f_uuid(u) == [t |-> "uuid", c |-> "*", u |-> u, n |-> 0]
\* f_and!([f_eq("class", c), f_lt("last_modified_cid", n)])
f_class_lt(c, n) == [t |-> "class_lt", c |-> c, u |-> 0, n |-> n]

Leaves == {f_class(c) : c \in Classes} \cup {f_uuid(u) : u \in Uuids}

\* f_eq("name", PartialValue::new_iutf8s(s))
f_name(s) == [t |-> "name", c |-> "*", u |-> 0, n |-> 0, s |-> s]

\* f_and!([f_eq("class", access_control_profile), f_eq("class", k),
\*         f_andnot(f_eq("acp_enable", false))])
f_acp(k) == [t |-> "acp", c |-> k, u |-> 0, n |-> 0]

LeafMatch(f, e) ==
    CASE f.t = "class" -> f.c \in e.class
      [] f.t = "name" -> HasName(e) /\ iutf8_eq(e.name, f.s)
      [] f.t = "uuid" -> f.u = e.uuid
      [] f.t = "class_lt" -> f.c \in e.class /\ e.cid < f.n
      [] f.t = "acp" -> /\ "access_control_profile" \in e.class
                        /\ f.c \in e.class
                        /\ ~(HasAcpEnable(e) /\ e.acp_enable = FALSE)

filter_all(f) == [w |-> "all", f |-> f]
filter_hidden(f) == [w |-> "hidden", f |-> f]
filter_rec(f) == [w |-> "recycled", f |-> f]

FilterMatch(flt, e) ==
    /\ LeafMatch(flt.f, e)
    /\ CASE flt.w = "all" -> TRUE
         [] flt.w = "hidden" -> ~("tombstone" \in e.class \/ "recycled" \in e.class)
         [] flt.w = "recycled" -> "recycled" \in e.class

\* ------------------------------------------------------------------- events
\* An event carries its origin, the filter the server resolves (filter),
\* the filter the requester wrote (filter_orig), and for a user the set of
\* entries its search access profiles cover (scope).
Origins == {"Internal", "User"}

new_internal(flt) ==
    [origin |-> "Internal", scope |-> Uuids, filter |-> flt, filter_orig |-> flt]

\* SearchEvent / DeleteEvent / ModifyEvent ::new_impersonate_entry and
\* SearchEvent::new_ext_impersonate_entry: the filter ignores hidden entries.
new_impersonate_entry(scope, f) ==
    [origin |-> "User", scope |-> scope,
     filter |-> filter_hidden(f), filter_orig |-> filter_all(f)]

\* SearchEvent::new_rec_impersonate_entry and ReviveRecycledEvent: the
\* filter is restricted to the recycle bin.
new_rec_impersonate_entry(scope, f) ==
    [origin |-> "User", scope |-> scope,
     filter |-> filter_rec(f), filter_orig |-> filter_all(f)]

\* ------------------------------------------------------------------- schema
\* The schema as loaded from the classtype and attributetype entries.
NoSchema == [classtypes |-> {}, attributetypes |-> {}, may |-> {}]

\* The attributes of the core schema, and one that exists only once an
\* attributetype entry defining it is loaded.
CoreAttrs == {"name", "description", "uuid", "member"}
DynAttrs == {"testattr"}

KnownAttrs(sch) ==
    CoreAttrs \cup (IF sch.attributetypes # {} THEN DynAttrs ELSE {})

KnownClasses(sch) ==
    CoreClasses \cup AcpKinds \cup (IF sch.classtypes # {} THEN DynClasses ELSE {})

\* A validation that accepts every entry.
validate_any(e, sch) == TRUE

\* Entry::validate: every class of the entry is a class of the schema.
validate(e, sch) == e.class \subseteq KnownClasses(sch)

\* Schema::validate: the errors of the loaded schema, one for each attribute
\* that a class definition names and no attribute definition defines.
schema_validate(sch) == sch.may \ KnownAttrs(sch)

\* ------------------------------------------------------------------ backend
\* BackendWriteTransaction::create / modify / delete over the entry set.
\* A create that does not reach the entry store.
be_create_dropped(ents, cand) == ents

be_create(ents, cand) == ents \cup cand
be_modify(ents, pre, post) == (ents \ pre) \cup post
be_delete(ents, ts) == ents \ ts

VARIABLES
    be,              \* committed backend entries
    schema,          \* committed schema
    accesscontrols,  \* committed access controls: <<kind, uuid>> of the profiles
    txn,             \* the QueryServerWriteTransaction being opened or open
    committing,      \* the write transaction inside commit(), if any
    last,            \* the last operation run and what it returned
    lastcommit,      \* what the last commit did
    nops,            \* operations run so far
    nwrites,         \* write transactions opened so far
    ih               \* the call of initialise_helper: its position and its log

qsvars ==
    <<be, schema, accesscontrols, txn, committing, last, lastcommit, nops,
      nwrites, ih>>

\* The state of the concurrent view (SpecTxn).
VARIABLES
    sdb,             \* committed storage: id2entry, a map id -> entry version
    sidl,            \* committed storage: the posting list of the index key
    entry_cache,     \* committed entry cache, a map id -> entry version
    idl_cache,       \* committed IDL cache, a map key -> posting list
    cschema,         \* committed schema (the transaction that wrote it)
    cacp,            \* committed access controls (the transaction that wrote them)
    wlock,           \* who holds the write handle of each part
    wpc,             \* each writer's position
    wtx,             \* each writer's transaction
    wacq,            \* the parts each writer acquired, in order
    wplan,           \* the parts each writer has still to commit
    clog,            \* the parts each writer committed, in order
    wres,            \* what each writer's last commit returned
    rpc,             \* the reader's position
    rtx,             \* the reader's snapshots
    robs,            \* what the reader's transaction returned so far
    hist,            \* every committed storage state so far
    ntxn,            \* write transactions begun so far
    nreads           \* read transactions begun so far

arcvars ==
    <<sdb, sidl, entry_cache, idl_cache, cschema, cacp, wlock, wpc, wtx, wacq,
      wplan, clog, wres, rpc, rtx, robs, hist, ntxn, nreads>>

\* The interval actor and the write server it sends to.
VARIABLES
    clock,           \* the present, in seconds from the origin of the timestamps
    due,             \* the time each run_interval of the actor fires next
    mbox,            \* the mailbox of the write server: messages not yet handled
    cur              \* the message the write server is handling

actorvars == <<clock, due, mbox, cur>>

\* The unix client: its cache layer and the server it asks.
VARIABLES
    cachelayer,      \* the CacheLayer: online or offline, and what it has cached
    idmserver,       \* the accounts, groups and credential the server holds
    unixlog          \* the last call of the cache layer and what the online
                     \* responses have carried so far

unixvars == <<cachelayer, idmserver, unixlog>>

vars == <<qsvars, arcvars, actorvars, unixvars>>

\* Backend operations run by one write transaction.
MaxTxnOps == 2
\* Read transactions begun in total in a behaviour of SpecTxn.
MaxReads == 1

\* The threads that call QueryServer::write, each for one write transaction.
Writers == {1, 2}
MaxTxn == Cardinality(Writers)
\* The entry ids of id2entry and the one index key of the model.
ArcIds == {1, 2}
IdxKeys == {"k"}
\* The posting lists a writer stores under the key.
Idls == {{}, {1}}

Parts == {"schema", "entry_cache", "idl_cache", "db", "accesscontrols"}

EmptyMap == [x \in {} |-> 0]

\* A writer's transaction: its number (the version it gives what it writes),
\* its entry cache, IDL cache and storage transactions, and its operations.
NoWtx == [id |-> 0, ec |-> EmptyMap, ic |-> EmptyMap, db |-> EmptyMap,
          idl |-> <<>>, nops |-> 0]

\* A reader's transaction: the parts taken so far and their snapshots.
NoRtx == [acq |-> <<>>, ec |-> EmptyMap, ic |-> EmptyMap, db |-> EmptyMap,
          idl |-> <<>>]

\* What a read transaction returned: <<id, version>> pairs (version 0: no
\* such entry) and posting lists.
NoObs == [ents |-> {}, idls |-> {}]

\* acq counts the handles QueryServer::write has taken so far.
NoTxn ==
    [open |-> FALSE, acq |-> 0, cid |-> 0, be |-> {}, schema |-> NoSchema,
     acp |-> {}, changed_schema |-> FALSE, changed_acp |-> FALSE,
     touched_schema |-> FALSE, touched_acp |-> FALSE]

NoLast ==
    [op |-> "none", res |-> "none", beop |-> "none", uuids |-> {},
     attr |-> "", arg |-> "", out |-> ""]

\* initialise_helper not yet called: pc is the step it is at (0: none), st
\* where it is within the step, ts its argument, log what it has done.
NoHelper == [pc |-> 0, st |-> "idle", ts |-> 0, log |-> <<>>]

\* The interval actor is not started: none of its intervals is due, ever.
NotStarted == [purge_recycled |-> -1, purge_tombstones |-> -1]

\* The write server handles no message.
NoMessage == [ev |-> "none", uuid |-> 0]

NoCommit ==
    [res |-> "none", order |-> <<>>, reloads |-> <<>>,
     touched_schema |-> FALSE, touched_acp |-> FALSE]

\* No transaction is inside commit(): todo are the parts the committing
\* transaction has still to commit, schema, acp and be what it holds of
\* them, result what commit() is going to return.
NoCommitting ==
    [todo |-> <<>>, schema |-> NoSchema, acp |-> {}, be |-> {},
     result |-> NoCommit]

\* ------------------------------------------------------------------- search
\* A search that resolves the filter as the requester wrote it, without the
\* wrapper the event constructor put around it.
search_filter_orig(t, se) ==
    { e \in t.be :
        /\ FilterMatch(se.filter_orig, e)
        /\ (se.origin = "Internal" \/ e.uuid \in se.scope) }

\* QueryServerTransaction::search: resolve se.filter in the backend, then
\* keep what the requester's search access profiles cover.
search(t, se) ==
    { e \in t.be :
        /\ FilterMatch(se.filter, e)
        /\ (se.origin = "Internal" \/ e.uuid \in se.scope) }

internal_search(t, flt) == search(t, new_internal(flt))

\* impersonate_search_valid(f_valid, f_intent_valid, event)
impersonate_search_valid(t, ev) == search(t, ev)

\* ------------------------------------------------------------- name lookups
\* QueryServerTransaction::name_to_uuid
name_to_uuid(t, name) ==
    LET res == internal_search(t, filter_hidden(f_name(name))) IN
    IF res = {} THEN [res |-> "NoMatchingEntries", uuid |-> NotAUuid]
    ELSE IF Cardinality(res) >= 2 THEN [res |-> "InvalidDBState", uuid |-> NotAUuid]
    ELSE [res |-> "Ok", uuid |-> (CHOOSE e \in res : TRUE).uuid]

\* QueryServerTransaction::uuid_to_name: Ok(None) is res "None".
uuid_to_name(t, u) ==
    LET res == internal_search(t, filter_hidden(f_uuid(u))) IN
    IF res = {} THEN [res |-> "None", name |-> ""]
    ELSE IF Cardinality(res) >= 2 THEN [res |-> "InvalidDBState", name |-> ""]
    ELSE LET e == CHOOSE x \in res : TRUE IN
         IF HasName(e) THEN [res |-> "Ok", name |-> e.name]
         ELSE [res |-> "None", name |-> ""]

\* The attribute names a requester passes to clone_value.
AttrStrings == {"name", "NaMe", "description", "uuid", "member", "Member", "tausau"}

\* Schema::normalise_attr_name
normalise_attr_name(a) == to_lowercase(a)

\* The syntax of the attributes of the core schema; "none" for a name the
\* schema does not have.
SyntaxOf(a) ==
    CASE a = "name" -> "UTF8STRING_INSENSITIVE"
      [] a = "description" -> "UTF8STRING"
      [] a = "uuid" -> "UUID"
      [] a \in {"member", "memberof", "directmemberof"} -> "REFERENCE_UUID"
      [] OTHER -> "none"

\* A value: its syntax, and its string or its uuid.
StrValue(ty, str) == [res |-> "Ok", ty |-> ty, str |-> str, uuid |-> NotAUuid]
UuidValue(ty, u) == [res |-> "Ok", ty |-> ty, str |-> "", uuid |-> u]
ValueErr(err) == [res |-> err, ty |-> "none", str |-> "", uuid |-> NotAUuid]

\* A clone_value that hands the error of name_to_uuid to its caller.
clone_value_strict(t, attr, value) ==
    LET temp_a == normalise_attr_name(attr)
        syntax == SyntaxOf(temp_a)
    IN CASE syntax = "none" -> ValueErr("InvalidAttributeName")
         [] syntax = "UTF8STRING" -> StrValue("utf8", value)
         [] syntax = "UTF8STRING_INSENSITIVE" -> StrValue("iutf8", to_lowercase(value))
         [] syntax \in {"UUID", "REFERENCE_UUID"} ->
               IF new_uuids(value) # NotAUuid
               THEN UuidValue(IF syntax = "UUID" THEN "uuid" ELSE "refer", new_uuids(value))
               ELSE LET r == name_to_uuid(t, value) IN
                    IF r.res # "Ok" THEN ValueErr(r.res)
                    ELSE UuidValue(IF syntax = "UUID" THEN "uuid" ELSE "refer", r.uuid)

\* QueryServerTransaction::clone_value, for the syntaxes of AttrStrings
clone_value(t, attr, value) ==
    LET temp_a == normalise_attr_name(attr)
        syntax == SyntaxOf(temp_a)
    IN CASE syntax = "none" -> ValueErr("InvalidAttributeName")
         [] syntax = "UTF8STRING" -> StrValue("utf8", value)
         [] syntax = "UTF8STRING_INSENSITIVE" -> StrValue("iutf8", to_lowercase(value))
         [] syntax \in {"UUID", "REFERENCE_UUID"} ->
               IF new_uuids(value) # NotAUuid
               THEN UuidValue(IF syntax = "UUID" THEN "uuid" ELSE "refer", new_uuids(value))
               ELSE LET r == name_to_uuid(t, value)
                        un == IF r.res = "Ok" THEN r.uuid ELSE UUID_DOES_NOT_EXIST
                    IN UuidValue(IF syntax = "UUID" THEN "uuid" ELSE "refer", un)

\* ------------------------------------------------------------ the handlers
\* What a handler returns: the transaction after it, the result, the backend
\* operation it issued and the candidates (pre- and post-images) it wrote.
Ret(t, res, beop, cands) == [t |-> t, res |-> res, beop |-> beop, cands |-> cands]

IsSchemaEntry(e) ==
    attribute_value_pres(e, "classtype") \/ attribute_value_pres(e, "attributetype")
IsAcpEntry(e) == attribute_value_pres(e, "access_control_profile")

\* The points at which the access controls, a plugin or the backend can
\* refuse.
FailPoints == {"none", "acp", "pre", "be", "post"}

\* ------------------------------------------------------------- the plugins
IsLive(e) ==
    ~attribute_value_pres(e, "recycled") /\ ~attribute_value_pres(e, "tombstone")
IsGroup(e) == attribute_value_pres(e, "group")

\* The live groups that hold one of the uuids us as a direct member.
direct_groups(ents, us) ==
    {g.uuid : g \in {x \in ents : IsLive(x) /\ IsGroup(x) /\ x.member \cap us # {}}}

\* The live groups that hold one of us directly or through nested groups;
\* a cycle of groups ends the walk.
RECURSIVE all_groups(_, _, _)
all_groups(ents, gs, n) ==
    LET more == gs \cup direct_groups(ents, gs) IN
    IF n = 0 \/ more = gs THEN gs ELSE all_groups(ents, more, n - 1)

\* plugin memberof: directmemberof and memberof of the live entries are
\* recomputed from member; an entry it rewrites gets the transaction's CID.
apply_memberof(ents, cid) ==
    { IF ~IsLive(e) THEN e
      ELSE LET dmo == direct_groups(ents, {e.uuid})
               mo == all_groups(ents, dmo, Cardinality(ents))
           IN IF e.directmemberof = dmo /\ e.memberof = mo THEN e
              ELSE [e EXCEPT !.directmemberof = dmo, !.memberof = mo, !.cid = cid]
      : e \in ents }

\* A refint that cleans the member attribute only.
refint_post_delete_member_only(ents, us, cid) ==
    { IF e.member \cap us = {} THEN e
      ELSE [e EXCEPT !.member = @ \ us, !.cid = cid]
      : e \in ents }

\* plugin refint, post_delete: every reference to a deleted uuid is removed
\* from every stored entry, hidden ones included.
refint_post_delete(ents, us, cid) ==
    { IF (e.member \cup e.memberof \cup e.directmemberof) \cap us = {} THEN e
      ELSE [e EXCEPT !.member = @ \ us, !.memberof = @ \ us,
                     !.directmemberof = @ \ us, !.cid = cid]
      : e \in ents }

\* plugin refint, post_create / post_modify: a member of a candidate has to be
\* the uuid of a live entry.
refint_check(ents, cands) ==
    \A e \in cands : \A u \in e.member : \E x \in ents : IsLive(x) /\ x.uuid = u

\* plugin attrunique, pre_create / pre_modify: no two candidates have the same
\* name, and no candidate has the name of a live entry with another uuid.
attrunique(ents, cands) ==
    \A e \in cands : HasName(e) =>
        /\ \A x \in cands : (HasName(x) /\ x.uuid # e.uuid) => ~iutf8_eq(x.name, e.name)
        /\ \A x \in ents :
              (IsLive(x) /\ HasName(x) /\ x.uuid # e.uuid) => ~iutf8_eq(x.name, e.name)

\* A create whose pre_create plugins do not look for the uuid among the stored
\* entries.
create_no_base(t, ce, fp) ==
    IF ce.origin # "Internal" /\ fp = "acp"
    THEN Ret(t, "AccessDenied", "none", {})
    ELSE
    LET candidates == {assign_cid(e, t.cid) : e \in ce.entries} IN
    IF fp = "pre" THEN Ret(t, "Plugin", "none", {})
    ELSE IF \E e \in candidates : ~validate(e, t.schema)
    THEN Ret(t, "SchemaViolation", "none", {})
    ELSE IF ~attrunique(t.be, candidates) THEN Ret(t, "Plugin", "none", {})
    ELSE IF fp = "be" THEN Ret(t, "Backend", "none", {})
    ELSE
    LET t2 == [t EXCEPT !.be = be_create(t.be, candidates)] IN
    IF fp = "post" \/ ~refint_check(t2.be, candidates)
    THEN Ret(t2, "Plugin", "create", candidates)
    ELSE Ret([t2 EXCEPT
                !.be = apply_memberof(@, t.cid),
                !.changed_schema = \E e \in candidates : IsSchemaEntry(e),
                !.changed_acp = \E e \in candidates : IsAcpEntry(e)],
             "Ok", "create", candidates)

\* QueryServerWriteTransaction::create
create(t, ce, fp) ==
    IF ce.origin # "Internal" /\ fp = "acp"
    THEN Ret(t, "AccessDenied", "none", {})
    ELSE
    LET candidates == {assign_cid(e, t.cid) : e \in ce.entries} IN
    \* run_pre_create_transform: a plugin refuses, or plugin base finds the
    \* uuid of a candidate among the stored entries
    IF fp = "pre" THEN Ret(t, "Plugin", "none", {})
    ELSE IF \E e \in candidates : \E x \in t.be : x.uuid = e.uuid
    THEN Ret(t, "Plugin", "none", {})
    \* the candidates are validated against the schema
    ELSE IF \E e \in candidates : ~validate(e, t.schema)
    THEN Ret(t, "SchemaViolation", "none", {})
    \* run_pre_create: plugin attrunique
    ELSE IF ~attrunique(t.be, candidates) THEN Ret(t, "Plugin", "none", {})
    \* be_txn.create
    ELSE IF fp = "be" THEN Ret(t, "Backend", "none", {})
    ELSE
    LET t2 == [t EXCEPT !.be = be_create(t.be, candidates)] IN
    IF fp = "post" \/ ~refint_check(t2.be, candidates)
    THEN Ret(t2, "Plugin", "create", candidates)
    ELSE Ret([t2 EXCEPT
                !.be = apply_memberof(@, t.cid),
                !.changed_schema = \E e \in candidates : IsSchemaEntry(e),
                !.changed_acp = \E e \in candidates : IsAcpEntry(e)],
             "Ok", "create", candidates)

\* A delete that removes the matched entries from the backend outright.
delete_hard(t, de, fp) ==
    LET pre_candidates == {e \in t.be : FilterMatch(de.filter, e)} IN
    IF pre_candidates = {} \/ fp # "none"
    THEN Ret(t, "NoMatchingEntries", "none", {})
    ELSE Ret([t EXCEPT !.be = be_delete(t.be, pre_candidates)],
             "Ok", "delete", pre_candidates)

\* A delete that recycles the candidates first and asks the access controls
\* afterwards.
delete_check_after_write(t, de, fp) ==
    LET pre_candidates == impersonate_search_valid(t, de)
        del_cand == {to_recycled(invalidate(e, t.cid)) : e \in pre_candidates}
        t2 == [t EXCEPT !.be = be_modify(t.be, pre_candidates, del_cand)]
    IN IF pre_candidates = {} THEN Ret(t, "NoMatchingEntries", "none", {})
       ELSE IF de.origin # "Internal" /\ fp = "acp"
       THEN Ret(t2, "AccessDenied", "modify", del_cand)
       ELSE Ret(t2, "Ok", "modify", del_cand)

\* A delete that tolerates an empty candidate set of an internal request, as
\* modify does.
delete_tolerant(t, de, fp) ==
    LET pre_candidates == impersonate_search_valid(t, de) IN
    IF de.origin # "Internal" /\ fp = "acp"
    THEN Ret(t, "AccessDenied", "none", {})
    ELSE IF pre_candidates = {}
    THEN (IF de.origin = "Internal" THEN Ret(t, "Ok", "none", {})
          ELSE Ret(t, "NoMatchingEntries", "none", {}))
    ELSE
    LET candidates == {invalidate(e, t.cid) : e \in pre_candidates} IN
    IF fp = "pre" THEN Ret(t, "Plugin", "none", {})
    ELSE
    LET del_cand == {to_recycled(e) : e \in candidates} IN
    IF \E e \in del_cand : ~validate(e, t.schema)
    THEN Ret(t, "SchemaViolation", "none", {})
    \* be_txn.modify
    ELSE IF fp = "be" THEN Ret(t, "Backend", "none", {})
    ELSE
    LET t2 == [t EXCEPT !.be = be_modify(t.be, pre_candidates, del_cand)] IN
    IF fp = "post" THEN Ret(t2, "Plugin", "modify", del_cand)
    ELSE Ret([t2 EXCEPT
                !.be = apply_memberof(
                           refint_post_delete(@, {e.uuid : e \in del_cand}, t.cid),
                           t.cid),
                !.changed_schema = \E e \in del_cand : IsSchemaEntry(e),
                !.changed_acp = \E e \in del_cand : IsAcpEntry(e)],
             "Ok", "modify", del_cand)

\* QueryServerWriteTransaction::delete
delete(t, de, fp) ==
    LET pre_candidates == impersonate_search_valid(t, de) IN
    IF de.origin # "Internal" /\ fp = "acp"
    THEN Ret(t, "AccessDenied", "none", {})
    ELSE IF pre_candidates = {}
    THEN Ret(t, "NoMatchingEntries", "none", {})
    ELSE
    LET candidates == {invalidate(e, t.cid) : e \in pre_candidates} IN
    IF fp = "pre" THEN Ret(t, "Plugin", "none", {})
    ELSE
    LET del_cand == {to_recycled(e) : e \in candidates} IN
    IF \E e \in del_cand : ~validate(e, t.schema)
    THEN Ret(t, "SchemaViolation", "none", {})
    \* be_txn.modify
    ELSE IF fp = "be" THEN Ret(t, "Backend", "none", {})
    ELSE
    LET t2 == [t EXCEPT !.be = be_modify(t.be, pre_candidates, del_cand)] IN
    IF fp = "post" THEN Ret(t2, "Plugin", "modify", del_cand)
    ELSE Ret([t2 EXCEPT
                !.be = apply_memberof(
                           refint_post_delete(@, {e.uuid : e \in del_cand}, t.cid),
                           t.cid),
                !.changed_schema = \E e \in del_cand : IsSchemaEntry(e),
                !.changed_acp = \E e \in del_cand : IsAcpEntry(e)],
             "Ok", "modify", del_cand)

\* Modify::Present / Modify::Removed on the class attribute, and
\* Modify::Present on the member attribute.
m_pres(c) == [m |-> "Present", v |-> c]
m_remove(c) == [m |-> "Removed", v |-> c]
m_pres_member(u) == [m |-> "PresentMember", u |-> u]

apply_mod(e, m) ==
    IF m.m = "Present" THEN [e EXCEPT !.class = @ \cup {m.v}]
    ELSE IF m.m = "PresentMember" THEN [e EXCEPT !.member = @ \cup {m.u}]
    ELSE [e EXCEPT !.class = @ \ {m.v}]

RECURSIVE apply_modlist(_, _)
apply_modlist(e, ml) ==
    IF ml = <<>> THEN e ELSE apply_modlist(apply_mod(e, Head(ml)), Tail(ml))

\* A modify that searches for its candidates before it looks at the
\* modification list.
modify_search_first(t, me, fp) ==
    LET pre_candidates == impersonate_search_valid(t, me) IN
    IF pre_candidates = {}
    THEN (IF me.origin = "Internal" THEN Ret(t, "Ok", "none", {})
          ELSE Ret(t, "NoMatchingEntries", "none", {}))
    ELSE IF me.origin # "Internal" /\ fp = "acp"
    THEN Ret(t, "AccessDenied", "none", {})
    ELSE IF Len(me.modlist) = 0 THEN Ret(t, "EmptyRequest", "none", {})
    ELSE
    LET candidates ==
            {apply_modlist(invalidate(e, t.cid), me.modlist) : e \in pre_candidates}
    IN Ret([t EXCEPT !.be = be_modify(t.be, pre_candidates, candidates)],
           "Ok", "modify", candidates \cup pre_candidates)

\* A modify that refuses an empty candidate set whatever the origin.
modify_no_match_strict(t, me, fp) ==
    LET pre_candidates == impersonate_search_valid(t, me) IN
    IF Len(me.modlist) = 0 THEN Ret(t, "EmptyRequest", "none", {})
    ELSE IF pre_candidates = {} THEN Ret(t, "NoMatchingEntries", "none", {})
    ELSE
    LET candidates ==
            {apply_modlist(invalidate(e, t.cid), me.modlist) : e \in pre_candidates}
    IN Ret([t EXCEPT !.be = be_modify(t.be, pre_candidates, candidates)],
           "Ok", "modify", candidates \cup pre_candidates)

\* A modify that leaves last_modified_cid of its candidates as it was.
modify_keep_cid(t, me, fp) ==
    LET pre_candidates == impersonate_search_valid(t, me)
        candidates == {apply_modlist(e, me.modlist) : e \in pre_candidates}
    IN IF Len(me.modlist) = 0 THEN Ret(t, "EmptyRequest", "none", {})
       ELSE IF pre_candidates = {} THEN Ret(t, "Ok", "none", {})
       ELSE Ret([t EXCEPT !.be = be_modify(t.be, pre_candidates, candidates)],
                "Ok", "modify", candidates \cup pre_candidates)

\* QueryServerWriteTransaction::modify
modify(t, me, fp) ==
    IF Len(me.modlist) = 0 THEN Ret(t, "EmptyRequest", "none", {})
    ELSE
    LET pre_candidates == impersonate_search_valid(t, me) IN
    IF pre_candidates = {}
    THEN (IF me.origin = "Internal" THEN Ret(t, "Ok", "none", {})
          ELSE Ret(t, "NoMatchingEntries", "none", {}))
    ELSE IF me.origin # "Internal" /\ fp = "acp"
    THEN Ret(t, "AccessDenied", "none", {})
    ELSE
    LET candidates ==
            {apply_modlist(invalidate(e, t.cid), me.modlist) : e \in pre_candidates}
    IN
    IF fp = "pre" \/ ~attrunique(t.be, candidates) THEN Ret(t, "Plugin", "none", {})
    ELSE IF \E e \in candidates : ~validate(e, t.schema)
    THEN Ret(t, "SchemaViolation", "none", {})
    \* be_txn.modify
    ELSE IF fp = "be" THEN Ret(t, "Backend", "none", {})
    ELSE
    LET t2 == [t EXCEPT !.be = be_modify(t.be, pre_candidates, candidates)] IN
    IF fp = "post" \/ ~refint_check(t2.be, candidates)
    THEN Ret(t2, "Plugin", "modify", candidates \cup pre_candidates)
    ELSE Ret([t2 EXCEPT
                !.be = apply_memberof(@, t.cid),
                !.changed_schema =
                    \E e \in candidates \cup pre_candidates : IsSchemaEntry(e),
                !.changed_acp =
                    \E e \in candidates \cup pre_candidates : IsAcpEntry(e)],
             "Ok", "modify", candidates \cup pre_candidates)

\* QueryServerWriteTransaction::internal_modify
internal_modify(t, flt, ml) ==
    modify(t, [origin |-> "Internal", scope |-> Uuids, filter |-> flt,
               filter_orig |-> flt, modlist |-> ml], "none")

\* QueryServerWriteTransaction::internal_create
internal_create(t, es) == create(t, [origin |-> "Internal", entries |-> es], "none")

\* Entry::gen_modlist_assert: the modifications that make the classes of e
\* present, and leave what else the stored entry has.
RECURSIVE gen_modlist_assert_classes(_)
gen_modlist_assert_classes(cls) ==
    IF cls = {} THEN <<>>
    ELSE LET c == CHOOSE x \in cls : TRUE
         IN <<m_pres(c)>> \o gen_modlist_assert_classes(cls \ {c})

gen_modlist_assert(e) == gen_modlist_assert_classes(e.class)

\* An internal_migrate_or_create that writes the asserted entry over the
\* stored one.
internal_migrate_or_create_replace(t, e) ==
    LET results == {x \in t.be : x.uuid = e.uuid}
    IN IF e.uuid = NotAUuid THEN Ret(t, "FilterGeneration", "none", {})
       ELSE IF results = {} THEN internal_create(t, {e})
       ELSE IF Cardinality(results) = 1
       THEN Ret([t EXCEPT !.be = be_modify(t.be, results, {assign_cid(e, t.cid)})],
                "Ok", "modify", results)
       ELSE Ret(t, "InvalidDBState", "none", {})

\* QueryServerWriteTransaction::internal_migrate_or_create; an entry without
\* uuid (e.uuid = NotAUuid) gives no filter.
internal_migrate_or_create(t, e) ==
    IF e.uuid = NotAUuid THEN Ret(t, "FilterGeneration", "none", {})
    ELSE
    LET filt == filter_all(f_uuid(e.uuid))
        results == internal_search(t, filt)
    IN IF results = {} THEN internal_create(t, {e})
       ELSE IF Cardinality(results) = 1
       THEN internal_modify(t, filt, gen_modlist_assert(e))
       ELSE Ret(t, "InvalidDBState", "none", {})

\* entries.into_iter().map(internal_migrate_or_create).collect(): the entries
\* in order, up to the first error.
RECURSIVE migrate_all(_, _)
migrate_all(t, es) ==
    IF es = <<>> THEN Ret(t, "Ok", "none", {})
    ELSE LET r == internal_migrate_or_create(t, Head(es)) IN
         IF r.res # "Ok" \/ Len(es) = 1 THEN r
         ELSE LET r2 == migrate_all(r.t, Tail(es))
              IN Ret(r2.t, r2.res, r2.beop, r.cands \cup r2.cands)

\* The entries of the three initialisations, one or two for each: an
\* attribute of the core schema; a class of the IDM schema (testclass stands
\* for account, group and the other classes IDM entries have); an IDM entry
\* of that class and an access control profile.
CoreSchemaEntries == <<new_entry(1, {"object", "attributetype"}, {})>>
IdmSchemaEntries == <<new_entry(2, {"object", "classtype"}, {})>>
IdmEntries ==
    <<new_entry(3, {"object", "testclass"}, {}),
      new_acp_entry(4, "access_control_search", TRUE)>>

\* QueryServerWriteTransaction::initialise_schema_core
initialise_schema_core(t) == migrate_all(t, CoreSchemaEntries)
\* QueryServerWriteTransaction::initialise_schema_idm
initialise_schema_idm(t) == migrate_all(t, IdmSchemaEntries)
\* QueryServerWriteTransaction::initialise_idm
initialise_idm(t) == migrate_all(t, IdmEntries)

\* QueryServerWriteTransaction::upgrade_reindex -> be_txn.upgrade_reindex: no
\* entry changes; ok tells whether the backend succeeds.
upgrade_reindex(t, v, ok) == Ret(t, IF ok THEN "Ok" ELSE "Backend", "none", {})

SYSTEM_INDEX_VERSION == 1

\* An initialise_helper that loads the IDM schema before the core schema.
HelperStepsIdmFirst ==
    <<[op |-> "upgrade_reindex", v |-> SYSTEM_INDEX_VERSION],
      [op |-> "initialise_schema_idm", v |-> 0],
      [op |-> "initialise_schema_core", v |-> 0],
      [op |-> "upgrade_reindex", v |-> SYSTEM_INDEX_VERSION + 1],
      [op |-> "initialise_idm", v |-> 0]>>

\* QueryServer::initialise_helper: what it runs, each in a write transaction
\* of its own.
HelperSteps ==
    <<[op |-> "upgrade_reindex", v |-> SYSTEM_INDEX_VERSION],
      [op |-> "initialise_schema_core", v |-> 0],
      [op |-> "initialise_schema_idm", v |-> 0],
      [op |-> "upgrade_reindex", v |-> SYSTEM_INDEX_VERSION + 1],
      [op |-> "initialise_idm", v |-> 0]>>

\* One step of initialise_helper on the transaction it opened for it.
run_step(t, step, ok) ==
    CASE step.op = "upgrade_reindex" -> upgrade_reindex(t, step.v, ok)
      [] step.op = "initialise_schema_core" -> initialise_schema_core(t)
      [] step.op = "initialise_schema_idm" -> initialise_schema_idm(t)
      [] step.op = "initialise_idm" -> initialise_idm(t)

\* The ModifyList of revive_recycled for one group: Present(member, u) for
\* every revived entry u that lists the group in directmemberof.
RECURSIVE member_mods(_)
member_mods(us) ==
    IF us = {} THEN <<>>
    ELSE LET u == CHOOSE x \in us : \A y \in us : x <= y
         IN <<m_pres_member(u)>> \o member_mods(us \ {u})

\* A revive_recycled that stops after class recycled is removed.
revive_dm_skipped(r, gs, dm_mods) == r

\* The internal modifies of revive_recycled, one per group of dm_mods in the
\* order of the map's keys, up to the first that fails.
RECURSIVE revive_dm(_, _, _)
revive_dm(r, gs, dm_mods) ==
    IF gs = {} \/ r.res # "Ok" THEN r
    ELSE LET g == CHOOSE x \in gs : \A y \in gs : x <= y
             r2 == internal_modify(r.t, filter_all(f_uuid(g)), member_mods(dm_mods[g]))
         IN revive_dm(Ret(r2.t, r2.res, "modify", r.cands \cup r2.cands),
                      gs \ {g}, dm_mods)

\* A revive_recycled that restores the memberships but leaves class recycled
\* on the matched entries.
revive_recycled_keep_class(t, re, fp) ==
    LET revive_cands == impersonate_search_valid(t, re)
        gs == UNION {e.directmemberof : e \in revive_cands}
        dm_mods == [g \in gs |->
                       {e.uuid : e \in {x \in revive_cands : g \in x.directmemberof}}]
    IN IF revive_cands = {} THEN Ret(t, "NoMatchingEntries", "none", {})
       ELSE revive_dm(Ret(t, "Ok", "none", revive_cands), gs, dm_mods)

\* QueryServerWriteTransaction::revive_recycled
revive_recycled(t, re, fp) ==
    LET revive_cands == impersonate_search_valid(t, re)
        gs == UNION {e.directmemberof : e \in revive_cands}
        dm_mods == [g \in gs |->
                       {e.uuid : e \in {x \in revive_cands : g \in x.directmemberof}}]
        r == modify(t, [origin |-> re.origin, scope |-> re.scope,
                        filter |-> re.filter, filter_orig |-> re.filter_orig,
                        modlist |-> <<m_remove("recycled")>>], fp)
    IN IF r.res # "Ok" THEN r ELSE revive_dm(r, gs, dm_mods)

\* A purge_tombstones that removes every tombstone, whatever its age.
purge_tombstones_any_age(t) ==
    LET ts == internal_search(t, filter_all(f_class("tombstone"))) IN
    IF ts = {} THEN Ret(t, "Ok", "none", {})
    ELSE Ret([t EXCEPT !.be = be_delete(t.be, ts)], "Ok", "delete", ts)

\* QueryServerWriteTransaction::purge_tombstones
purge_tombstones(t) ==
    LET cid == sub_secs(t.cid, CHANGELOG_MAX_AGE) IN
    IF cid < 0 THEN Ret(t, "InvalidReplCID", "none", {})
    ELSE
    LET ts == internal_search(t, filter_all(f_class_lt("tombstone", cid))) IN
    IF ts = {} THEN Ret(t, "Ok", "none", {})
    ELSE Ret([t EXCEPT !.be = be_delete(t.be, ts)], "Ok", "delete", ts)

\* A purge_recycled that takes every recycled entry, whatever its age.
purge_recycled_any_age(t) ==
    LET rc == internal_search(t, filter_all(f_class("recycled")))
        tombstone_cand == {to_tombstone(e, t.cid) : e \in rc}
    IN IF rc = {} THEN Ret(t, "Ok", "none", {})
       ELSE Ret([t EXCEPT !.be = be_modify(t.be, rc, tombstone_cand)],
                "Ok", "modify", tombstone_cand)

\* QueryServerWriteTransaction::purge_recycled
\* A purge that deletes what is old enough in the recycle bin.
purge_recycled_removes(t) ==
    LET cid == sub_secs(t.cid, RECYCLEBIN_MAX_AGE) IN
    IF cid < 0 THEN Ret(t, "InvalidReplCID", "none", {})
    ELSE
    LET rc == internal_search(t, filter_all(f_class_lt("recycled", cid))) IN
    IF rc = {} THEN Ret(t, "Ok", "none", {})
    ELSE Ret([t EXCEPT !.be = be_delete(t.be, rc)], "Ok", "delete", rc)

purge_recycled(t) ==
    LET cid == sub_secs(t.cid, RECYCLEBIN_MAX_AGE) IN
    IF cid < 0 THEN Ret(t, "InvalidReplCID", "none", {})
    ELSE
    LET rc == internal_search(t, filter_all(f_class_lt("recycled", cid))) IN
    IF rc = {} THEN Ret(t, "Ok", "none", {})
    ELSE
    LET tombstone_cand == {to_tombstone(e, t.cid) : e \in rc} IN
    IF \E e \in tombstone_cand : ~validate(e, t.schema)
    THEN Ret(t, "SchemaViolation", "none", {})
    ELSE Ret([t EXCEPT !.be = be_modify(t.be, rc, tombstone_cand)],
             "Ok", "modify", tombstone_cand)

\* QueryServerWriteTransaction::reload_schema: rescan the live classtype and
\* attributetype entries.
reload_schema(t) ==
    [t EXCEPT !.schema =
        [attributetypes |->
            {e.uuid : e \in internal_search(t, filter_hidden(f_class("attributetype")))},
         classtypes |->
            {e.uuid : e \in internal_search(t, filter_hidden(f_class("classtype")))},
         may |->
            UNION {e.may : e \in {x \in internal_search(
                                          t, filter_hidden(f_class("classtype"))) :
                                    HasMay(x)}}]]

\* The entries one pass of reload_accesscontrols finds: the live, enabled
\* profiles of kind k.
acp_search(t, k) == internal_search(t, filter_hidden(f_acp(k)))

\* QueryServerWriteTransaction::reload_accesscontrols: four passes, one for
\* each kind; parse_ok tells whether try_from accepts the entries found. An
\* error ends the reload (and the commit that runs it, which drops the
\* transaction, whatever the passes before have loaded).
reload_accesscontrols(t, parse_ok) ==
    IF ~parse_ok /\ \E k \in AcpKinds : acp_search(t, k) # {}
    THEN [t |-> t, res |-> "InvalidACPState"]
    ELSE [t |-> [t EXCEPT !.acp =
                    UNION {{<<k, e.uuid>> : e \in acp_search(t, k)} : k \in AcpKinds}],
          res |-> "Ok"]

\* A commit that releases in the reverse of the order of acquisition.
CommitOrderReversed == <<"be_txn", "accesscontrols", "schema">>

\* The order in which commit commits the three parts.
CommitOrder == <<"schema", "accesscontrols", "be_txn">>

\* A commit that commits the backend whatever the validation of the schema
\* says.
commit_be_always(t, acp_ok, be_ok) ==
    LET t1 == IF t.changed_schema THEN reload_schema(t) ELSE t
        invalid == schema_validate(t1.schema) # {}
    IN [t |-> t1, res |-> IF invalid THEN "ConsistencyError" ELSE "Ok",
        order |-> IF invalid THEN <<"be_txn">> ELSE CommitOrder,
        reloads |-> IF t.changed_schema THEN <<"schema">> ELSE <<>>]

\* QueryServerWriteTransaction::commit, acp_ok telling whether the access
\* control profiles parse and be_ok whether the backend commit succeeds.
\* Returns the transaction as reloaded, the result, the parts committed in
\* order and the reloads run in order.
commit(t, acp_ok, be_ok) ==
    LET t1 == IF t.changed_schema THEN reload_schema(t) ELSE t
        r1 == IF t.changed_schema THEN <<"schema">> ELSE <<>>
        ra == IF t.changed_schema \/ t.changed_acp
              THEN reload_accesscontrols(t1, acp_ok) ELSE [t |-> t1, res |-> "Ok"]
        t2 == ra.t
        r2 == IF t.changed_schema \/ t.changed_acp
              THEN r1 \o <<"accesscontrols">> ELSE r1
    IN
    \* self.reload_schema(audit)?
    IF t.changed_schema /\ schema_validate(t1.schema) # {}
    THEN [t |-> t1, res |-> "ConsistencyError", order |-> <<>>, reloads |-> r1]
    \* self.reload_accesscontrols(audit)?
    ELSE IF ra.res # "Ok"
    THEN [t |-> t1, res |-> ra.res, order |-> <<>>, reloads |-> r2]
    ELSE IF schema_validate(t2.schema) # {}
    THEN [t |-> t2, res |-> "ConsistencyError", order |-> <<>>, reloads |-> r2]
    ELSE IF be_ok
    THEN [t |-> t2, res |-> "Ok", order |-> CommitOrder, reloads |-> r2]
    ELSE [t |-> t2, res |-> "Backend",
          order |-> SubSeq(CommitOrder, 1, Len(CommitOrder) - 1), reloads |-> r2]

Committed(order, part) == \E i \in 1..Len(order) : order[i] = part

\* ------------------------------------------------------- SpecQS: the actions
\* The leaves the requests of the model are built from.
OpLeaves == {f_class("object"), f_class("classtype"), f_class("recycled")}

\* What a requester's search access profiles cover: everything, or entry 1.
Scopes == {Uuids, {1}}

\* The delete requests: internal ones written with filter!, and impersonated
\* (external) ones.
DeleteEvents ==
    {new_internal(filter_hidden(f)) : f \in OpLeaves}
    \cup {new_impersonate_entry(s, f) : s \in Scopes, f \in OpLeaves}

\* The modify requests: as the delete requests, and internal ones written with
\* filter_all! (as revive_recycled and set_domain_name write them).
OpEvents ==
    DeleteEvents \cup {new_internal(filter_all(f)) : f \in OpLeaves}

ModLists ==
    { <<>>,
      <<m_remove("classtype")>>,
      <<m_pres("access_control_profile")>>,
      <<m_pres("testclass")>> }

\* ------------------------------------------------ the unix client cache layer
\* kanidm_unix_common::cache is not among the sources at hand: the layer is
\* modelled from what its tests (kanidm_unix_int/tests/cache_layer_test.rs)
\* do and expect.
UnixAccounts == {"testaccount1"}
UnixGroups == {"testgroup1", "allowed_group"}
\* The groups whose members pam_account_allowed lets in (the last argument
\* of CacheLayer::new).
pam_allow_groups == {"allowed_group"}
\* An account has a group of its own name.
UnixGroupNames == UnixAccounts \cup UnixGroups
\* TESTACCOUNT1_PASSWORD_A, _B and _INC.
UnixPasswords == {"A", "B", "INC"}
\* Calls of the cache layer and of the admin client in a behaviour of SpecUnix.
MaxUnixOps == MaxOps + 3

\* What test_fixture leaves on the server: admin in idm_admins, the posix
\* account with its gid, ssh key and password, its group, and the allowed
\* group, which has no member yet.
test_fixture ==
    [accounts |-> {"testaccount1"},
     groups |-> {"testgroup1", "allowed_group"},
     gids |-> {<<"testaccount1", 20000>>, <<"testgroup1", 20001>>,
               <<"allowed_group", 20002>>},
     sshkeys |-> {<<"testaccount1", "tk">>},
     members |-> {<<"admin", "idm_admins">>, <<"testaccount1", "testgroup1">>},
     cred |-> "A"]

CacheLayer_new ==
    [state |-> "Offline", usertokens |-> {}, grouptokens |-> {},
     memberof |-> {}, passwords |-> {}]

\* The unix token the server answers with for account a: its ssh keys and
\* its groups, the group of its own name first of all.
idm_account_unix_token(srv, a) ==
    [name |-> a,
     gidnumber |-> (CHOOSE p \in srv.gids : p[1] = a)[2],
     sshkeys |-> {p[2] : p \in {x \in srv.sshkeys : x[1] = a}},
     groups |-> {a} \cup {g \in srv.groups : <<a, g>> \in srv.members}]

\* The groups the server knows by name.
ServerGroups(srv) == srv.accounts \cup srv.groups

idm_group_delete(srv, g) ==
    [srv EXCEPT !.groups = @ \ {g}, !.gids = {p \in @ : p[1] # g},
                !.members = {m \in @ : m[2] # g}]

idm_account_delete(srv, a) ==
    [srv EXCEPT !.accounts = @ \ {a}, !.gids = {p \in @ : p[1] # a},
                !.sshkeys = {p \in @ : p[1] # a},
                !.members = {m \in @ : m[1] # a}]

idm_group_add_members(srv, g, a) == [srv EXCEPT !.members = @ \cup {<<a, g>>}]

idm_account_unix_cred_put(srv, a, pw) == [srv EXCEPT !.cred = pw]

UserItem(cl, a) == {t \in cl.usertokens : t.name = a}
GroupItem(cl, g) == {t \in cl.grouptokens : t.name = g}

\* Storing an account's token stores its groups and its memberships too
\* ("members are an artifact of user lookups").
set_cache_usertoken(cl, tok) ==
    [cl EXCEPT
       !.usertokens = {t \in @ : t.name # tok.name}
           \cup {[name |-> tok.name, gidnumber |-> tok.gidnumber,
                  sshkeys |-> tok.sshkeys, expired |-> FALSE]},
       !.grouptokens = {t \in @ : t.name \notin tok.groups}
           \cup {[name |-> g, expired |-> FALSE] : g \in tok.groups},
       !.memberof = {m \in @ : m[1] # tok.name}
           \cup {<<tok.name, g>> : g \in tok.groups}]

\* "The group should be removed too."
delete_cache_usertoken(cl, a) ==
    [cl EXCEPT
       !.usertokens = {t \in @ : t.name # a},
       !.grouptokens = {t \in @ : t.name # a},
       !.memberof = {m \in @ : m[1] # a /\ m[2] # a},
       !.passwords = {p \in @ : p[1] # a}]

set_cache_grouptoken(cl, g) ==
    [cl EXCEPT !.grouptokens =
        {t \in @ : t.name # g} \cup {[name |-> g, expired |-> FALSE]}]

delete_cache_grouptoken(cl, g) ==
    [cl EXCEPT !.grouptokens = {t \in @ : t.name # g},
               !.memberof = {m \in @ : m[2] # g}]

\* A lookup that asks the server and does not store the answer.
get_usertoken_unstored(cl, srv, a) ==
    IF cl.state = "Online" /\ a \in srv.accounts
    THEN [cl |-> cl,
          item |-> UserItem(set_cache_usertoken(CacheLayer_new,
                                idm_account_unix_token(srv, a)), a),
          resp |-> "found"]
    ELSE [cl |-> cl, item |-> UserItem(cl, a), resp |-> "none"]

\* The token of account a: from the cache, and from the server when the layer
\* is online and the cache has nothing or something expired.
get_usertoken(cl, srv, a) ==
    LET item == UserItem(cl, a)
        stale == item = {} \/ \E t \in item : t.expired
    IN  IF cl.state = "Online" /\ stale
        THEN IF a \in srv.accounts
             THEN LET c2 == set_cache_usertoken(cl, idm_account_unix_token(srv, a))
                  IN  [cl |-> c2, item |-> UserItem(c2, a), resp |-> "found"]
             ELSE [cl |-> delete_cache_usertoken(cl, a), item |-> {},
                   resp |-> "notfound"]
        ELSE [cl |-> cl, item |-> item, resp |-> "none"]

get_grouptoken(cl, srv, g) ==
    LET item == GroupItem(cl, g)
        stale == item = {} \/ \E t \in item : t.expired
    IN  IF cl.state = "Online" /\ stale
        THEN IF g \in ServerGroups(srv)
             THEN LET c2 == set_cache_grouptoken(cl, g)
                  IN  [cl |-> c2, item |-> GroupItem(c2, g), resp |-> "found"]
             ELSE [cl |-> delete_cache_grouptoken(cl, g), item |-> {},
                   resp |-> "notfound"]
        ELSE [cl |-> cl, item |-> item, resp |-> "none"]

\* Each lookup returns the cache layer after it, its answer (a set: empty
\* for None and for no keys), and whether the server was asked.
get_nssaccount_name(cl, srv, a) ==
    LET r == get_usertoken(cl, srv, a)
    IN  [cl |-> r.cl, resp |-> r.resp, auth |-> "none",
         res |-> {[name |-> t.name, gidnumber |-> t.gidnumber] : t \in r.item}]

get_sshkeys(cl, srv, a) ==
    LET r == get_usertoken(cl, srv, a)
    IN  [cl |-> r.cl, resp |-> r.resp, auth |-> "none",
         res |-> UNION {t.sshkeys : t \in r.item}]

get_nssgroup_name(cl, srv, g) ==
    LET r == get_grouptoken(cl, srv, g)
    IN  [cl |-> r.cl, resp |-> r.resp, auth |-> "none",
         res |-> {[name |-> t.name,
                   members |-> {m[1] : m \in {x \in r.cl.memberof : x[2] = g}}]
                  : t \in r.item}]

\* Online the server decides, and a success stores the token and the
\* password; offline the cached password decides, for a cached account.
pam_account_authenticate(cl, srv, a, pw) ==
    IF cl.state = "Online"
    THEN IF a \notin srv.accounts
         THEN [cl |-> delete_cache_usertoken(cl, a), resp |-> "notfound",
               auth |-> "None", res |-> {}]
         ELSE IF pw = srv.cred
         THEN LET c2 == set_cache_usertoken(cl, idm_account_unix_token(srv, a))
              IN  [cl |-> [c2 EXCEPT !.passwords =
                              {p \in @ : p[1] # a} \cup {<<a, pw>>}],
                   resp |-> "found", auth |-> "Some(true)", res |-> {}]
         ELSE [cl |-> cl, resp |-> "none", auth |-> "Some(false)", res |-> {}]
    ELSE IF UserItem(cl, a) = {}
         THEN [cl |-> cl, resp |-> "none", auth |-> "None", res |-> {}]
         ELSE [cl |-> cl, resp |-> "none", res |-> {},
               auth |-> IF <<a, pw>> \in cl.passwords
                        THEN "Some(true)" ELSE "Some(false)"]

\* The account is let in when its token names one of the allowed groups;
\* None for an account there is no token of.
pam_account_allowed(cl, srv, a) ==
    LET r == get_usertoken(cl, srv, a)
    IN  [cl |-> r.cl, resp |-> r.resp, res |-> {},
         auth |-> IF r.item = {} THEN "None"
                  ELSE IF \E g \in pam_allow_groups : <<a, g>> \in r.cl.memberof
                  THEN "Some(true)" ELSE "Some(false)"]

mark_offline(cl) == [cl EXCEPT !.state = "Offline"]
attempt_online(cl) == [cl EXCEPT !.state = "Online"]

\* invalidate: everything cached is expired, nothing is dropped.
CacheLayer_invalidate(cl) ==
    [cl EXCEPT !.usertokens = {[t EXCEPT !.expired = TRUE] : t \in @},
               !.grouptokens = {[t EXCEPT !.expired = TRUE] : t \in @}]

clear_cache(cl) ==
    [cl EXCEPT !.usertokens = {}, !.grouptokens = {}, !.memberof = {},
               !.passwords = {}]

\* What a lookup asks for.
UnixKeys ==
    {<<"account", a>> : a \in UnixAccounts}
    \cup {<<"sshkeys", a>> : a \in UnixAccounts}
    \cup {<<"group", g>> : g \in UnixGroupNames}

UnixLookups == {"get_nssaccount_name", "get_sshkeys", "get_nssgroup_name"}

KeyOf(op, nm) ==
    IF op = "get_nssgroup_name" THEN <<"group", nm>>
    ELSE IF op = "get_sshkeys" THEN <<"sshkeys", nm>>
    ELSE <<"account", nm>>

NoUnixCall ==
    [n |-> 0, op |-> "none", name |-> "none", state |-> "Offline",
     res |-> {}, auth |-> "none", fetched |-> {}, carried |-> {},
     fresh |-> {}, seen |-> [k \in UnixKeys |-> {}], cleared |-> FALSE]

\* The state after construction: an empty database behind empty caches, no
\* transaction open.
Init ==
    /\ be = {}
    /\ schema = NoSchema
    /\ accesscontrols = {}
    /\ txn = NoTxn
    /\ committing = NoCommitting
    /\ last = NoLast
    /\ lastcommit = NoCommit
    /\ nops = 0
    /\ nwrites = 0
    /\ ih = NoHelper
    /\ clock = 0
    /\ due = NotStarted
    /\ mbox = <<>>
    /\ cur = NoMessage
    /\ cachelayer = CacheLayer_new
    /\ idmserver = test_fixture
    /\ unixlog = NoUnixCall
    /\ sdb = EmptyMap
    /\ sidl = <<>>
    /\ entry_cache = EmptyMap
    /\ idl_cache = EmptyMap
    /\ cschema = 0
    /\ cacp = 0
    /\ wlock = [p \in Parts |-> 0]
    /\ wpc = [w \in Writers |-> "idle"]
    /\ wtx = [w \in Writers |-> NoWtx]
    /\ wacq = [w \in Writers |-> <<>>]
    /\ wplan = [w \in Writers |-> <<>>]
    /\ clog = [w \in Writers |-> <<>>]
    /\ wres = [w \in Writers |-> "none"]
    /\ rpc = "idle"
    /\ rtx = NoRtx
    /\ robs = NoObs
    /\ hist = {[db |-> EmptyMap, idl |-> <<>>]}
    /\ ntxn = 0
    /\ nreads = 0

\* --------------------------------------------- write() and commit(), by steps
\* QueryServer::write: the write handles in the order they are taken, with
\* Backend::write -> IdlArcSqlite::write in the place of be_txn.
ArcWriteOrder == <<"entry_cache", "idl_cache", "db">>
WriteOrder == <<"schema">> \o ArcWriteOrder \o <<"accesscontrols">>

\* A write() that takes its handles in an order of its thread's own: the
\* second thread takes them from the last to the first.
NextPartByThread(w, n) ==
    IF w = 1 THEN WriteOrder[n + 1] ELSE WriteOrder[Len(WriteOrder) - n]

\* The handle QueryServer::write takes after it has taken n: the order is
\* the same for every caller.
NextPart(w, n) == WriteOrder[n + 1]

\* IdlArcSqliteWriteTransaction::commit: what is committed after db.commit
\* returned db_ok.
idl_arc_commit(db_ok) == IF db_ok THEN <<"idl_cache", "entry_cache">> ELSE <<>>

\* The handles behind a part of the commit: be_txn stands for the three of
\* IdlArcSqliteWriteTransaction until db.commit() has returned.
PartHandles(part) ==
    IF part = "be_txn" THEN {ArcWriteOrder[i] : i \in 1..Len(ArcWriteOrder)}
    ELSE {part}

\* The handles the transaction inside commit() has not yet released.
HeldByCommit ==
    UNION {PartHandles(committing.todo[i]) : i \in 1..Len(committing.todo)}

\* QueryServer::write(ts) with nothing committing meanwhile: what it returns.
write(ts) ==
    [open |-> TRUE, acq |-> Len(WriteOrder), cid |-> ts, be |-> be,
     schema |-> schema, acp |-> accesscontrols,
     changed_schema |-> FALSE, changed_acp |-> FALSE,
     touched_schema |-> FALSE, touched_acp |-> FALSE]

\* QueryServer::write(ts) takes the handle part: schema.write() gives the
\* transaction the committed schema, db.write() the committed entries,
\* accesscontrols.write() the committed access controls, and with it the
\* QueryServerWriteTransaction is built.
write_step(t, ts, part) ==
    CASE part = "schema" -> [NoTxn EXCEPT !.acq = 1, !.cid = ts, !.schema = schema]
      [] part = "db" -> [t EXCEPT !.acq = @ + 1, !.be = be]
      [] part = "accesscontrols" ->
             [t EXCEPT !.acq = @ + 1, !.acp = accesscontrols, !.open = TRUE]
      [] OTHER -> [t EXCEPT !.acq = @ + 1]

\* One step of QueryServer::write(ts): the next handle is taken once the
\* transaction inside commit() has released it.
WriteTakes(ts) ==
    /\ ~txn.open
    /\ (txn.acq > 0) => (ts = txn.cid)
    /\ NextPart(1, txn.acq) \notin HeldByCommit
    /\ txn' = write_step(txn, ts, NextPart(1, txn.acq))
    /\ last' = NoLast
    /\ lastcommit' = IF txn'.open \/ committing = NoCommitting
                     THEN NoCommit ELSE lastcommit
    /\ UNCHANGED <<be, schema, accesscontrols, committing>>

\* The parts commit() goes through: those it commits and, when the backend
\* is to fail, be_txn after them.
CommitPlan(r) == IF r.res = "Backend" THEN Append(r.order, "be_txn") ELSE r.order

\* commit() is called: the reloads and the validation of the schema. On an
\* error it returns at once and the transaction is dropped.
CommitCalled(acp_ok, be_ok) ==
    /\ txn.open
    /\ LET r == commit(txn, acp_ok, be_ok)
           c == [todo |-> CommitPlan(r), schema |-> r.t.schema, acp |-> r.t.acp,
                 be |-> r.t.be,
                 result |-> [res |-> r.res, order |-> r.order,
                             reloads |-> r.reloads,
                             touched_schema |-> txn.touched_schema,
                             touched_acp |-> txn.touched_acp]]
       IN IF c.todo = <<>>
          THEN /\ lastcommit' = c.result
               /\ committing' = NoCommitting
          ELSE /\ committing' = c
               /\ UNCHANGED lastcommit
    /\ txn' = NoTxn
    /\ last' = NoLast
    /\ UNCHANGED <<be, schema, accesscontrols>>

\* The next part of the commit: schema.commit(), accesscontrols.commit(),
\* and be_txn.commit(), that is db.commit(), idl_cache.commit() and
\* entry_cache.commit(). db.commit() can fail, which ends the commit. With
\* the last part commit() returns.
CommitPart ==
    /\ committing.todo # <<>>
    /\ LET c == committing
           part == Head(c.todo)
           failed == part = "be_txn" /\ c.result.res = "Backend"
           rest == IF part # "be_txn" THEN Tail(c.todo)
                   ELSE idl_arc_commit(~failed) \o (IF failed THEN <<>> ELSE Tail(c.todo))
       IN /\ schema' = IF part = "schema" THEN c.schema ELSE schema
          /\ accesscontrols' = IF part = "accesscontrols" THEN c.acp ELSE accesscontrols
          /\ be' = IF part = "be_txn" /\ ~failed THEN c.be ELSE be
          /\ IF rest = <<>>
             THEN /\ lastcommit' = c.result
                  /\ committing' = NoCommitting
             ELSE /\ committing' = [c EXCEPT !.todo = rest]
                  /\ UNCHANGED lastcommit
    /\ UNCHANGED <<txn, last>>

WriteN(ts, max) ==
    /\ (txn.acq = 0) => (nwrites < max)
    /\ WriteTakes(ts)
    /\ nwrites' = IF txn.acq = 0 THEN nwrites + 1 ELSE nwrites
    /\ UNCHANGED <<nops, ih>>
    /\ UNCHANGED arcvars
    /\ UNCHANGED actorvars
    /\ UNCHANGED unixvars

Write(ts) == WriteN(ts, MaxWrites)

\* One handler call on the open transaction. touched_schema / touched_acp
\* remember whether any successful call so far had a schema / access control
\* candidate, independently of the flags the handlers keep.
CallN(op, r, max) ==
    /\ txn.open
    /\ nops < max
    /\ txn' = [r.t EXCEPT
                 !.touched_schema =
                    @ \/ (r.res = "Ok" /\ \E e \in r.cands : IsSchemaEntry(e)),
                 !.touched_acp =
                    @ \/ (r.res = "Ok" /\ \E e \in r.cands : IsAcpEntry(e))]
    /\ last' = [op |-> op, res |-> r.res, beop |-> r.beop,
                uuids |-> {e.uuid : e \in r.cands},
                attr |-> "", arg |-> "", out |-> ""]
    /\ nops' = nops + 1
    /\ UNCHANGED <<be, schema, accesscontrols, committing, lastcommit, nwrites, ih>>
    /\ UNCHANGED arcvars
    /\ UNCHANGED actorvars
    /\ UNCHANGED unixvars

Call(op, r) == CallN(op, r, MaxOps)

Create(origin, fp, u, cls) ==
    /\ (origin = "Internal" => fp # "acp")
    /\ Call("create",
            create(txn, [origin |-> origin, entries |-> {new_entry(u, cls, {})}], fp))

Delete(de, fp) ==
    /\ (de.origin = "Internal" => fp # "acp")
    /\ Call("delete", delete(txn, de, fp))

Modify(ev, ml, fp) ==
    /\ (ev.origin = "Internal" => fp # "acp")
    /\ Call("modify",
            modify(txn, [origin |-> ev.origin, scope |-> ev.scope,
                         filter |-> ev.filter, filter_orig |-> ev.filter_orig,
                         modlist |-> ml], fp))

\* An access control profile of one kind is created, enabled or not.
CreateAcp(u, k, enable) ==
    Call("create", internal_create(txn, {new_acp_entry(u, k, enable)}))

PurgeTombstones == Call("purge_tombstones", purge_tombstones(txn))

PurgeRecycled == Call("purge_recycled", purge_recycled(txn))

\* One step of commit(): the call, or the next of its parts.
Commit(be_ok) ==
    /\ \/ \E acp_ok \in BOOLEAN : CommitCalled(acp_ok, be_ok)
       \/ CommitPart
    /\ UNCHANGED <<nops, nwrites, ih>>
    /\ UNCHANGED arcvars
    /\ UNCHANGED actorvars
    /\ UNCHANGED unixvars

\* The transaction is dropped without commit.
Abort ==
    /\ txn.open
    /\ txn' = NoTxn
    /\ last' = NoLast
    /\ UNCHANGED <<be, schema, accesscontrols, committing, lastcommit, nops,
                   nwrites, ih>>
    /\ UNCHANGED arcvars
    /\ UNCHANGED actorvars
    /\ UNCHANGED unixvars

QSNext ==
    \/ \E ts \in Times : Write(ts)
    \/ \E o \in Origins, fp \in FailPoints, u \in Uuids, cls \in CreateClassSets :
          Create(o, fp, u, cls)
    \/ \E u \in Uuids, k \in AcpKinds, enable \in BOOLEAN : CreateAcp(u, k, enable)
    \/ \E de \in DeleteEvents, fp \in FailPoints : Delete(de, fp)
    \/ \E ev \in OpEvents, ml \in ModLists, fp \in FailPoints : Modify(ev, ml, fp)
    \/ PurgeTombstones
    \/ PurgeRecycled
    \/ \E ok \in BOOLEAN : Commit(ok)
    \/ Abort

SpecQS == Init /\ [][QSNext]_vars

\* ------------------------------------ SpecLife: the lifecycle of an entry
\* Persons are created, deleted, revived and purged over several write
\* transactions, at timestamps that reach past both purge windows.
MaxLifeOps == MaxOps + 2
MaxLifeWrites == 3
LifeTimes == 0..(MaxTime + 1)

LifeFailPoints == {"none", "acp"}

\* The requests name one entry, or every person.
LifeLeaves == {f_uuid(u) : u \in Uuids} \cup {f_class("person")}

LifeDeleteEvents ==
    {new_internal(filter_hidden(f)) : f \in LifeLeaves}
    \cup {new_impersonate_entry(Uuids, f) : f \in LifeLeaves}

LifeReviveEvents == {new_rec_impersonate_entry(Uuids, f) : f \in LifeLeaves}

LifeModifyEvents ==
    {new_internal(filter_hidden(f_class("person"))),
     new_impersonate_entry(Uuids, f_class("person"))}

LifeModLists == {<<>>, <<m_pres("object")>>}

\* What is created: persons, and tombstones as test_qs_tombstone creates them.
LifeClassSets == {{"object", "person"}, {"tombstone", "object"}}

LifeWrite(ts) == WriteN(ts, MaxLifeWrites)

LifeCreate(origin, fp, us, cls) ==
    /\ (origin = "Internal" => fp # "acp")
    /\ CallN("create",
             create(txn, [origin |-> origin,
                          entries |-> {new_entry(u, cls, {}) : u \in us}], fp),
             MaxLifeOps)

LifeDelete(de, fp) ==
    /\ (de.origin = "Internal" => fp # "acp")
    /\ CallN("delete", delete(txn, de, fp), MaxLifeOps)

LifeModify(ev, ml, fp) ==
    /\ (ev.origin = "Internal" => fp # "acp")
    /\ CallN("modify",
             modify(txn, [origin |-> ev.origin, scope |-> ev.scope,
                          filter |-> ev.filter, filter_orig |-> ev.filter_orig,
                          modlist |-> ml], fp),
             MaxLifeOps)

LifeRevive(re, fp) ==
    CallN("revive_recycled", revive_recycled(txn, re, fp), MaxLifeOps)

LifePurgeRecycled == CallN("purge_recycled", purge_recycled(txn), MaxLifeOps)

LifePurgeTombstones == CallN("purge_tombstones", purge_tombstones(txn), MaxLifeOps)

LifeCommit == Commit(TRUE)

LifeNext ==
    \/ \E ts \in LifeTimes : LifeWrite(ts)
    \/ \E o \in Origins, fp \in LifeFailPoints, us \in (SUBSET Uuids) \ {{}},
          cls \in LifeClassSets :
          LifeCreate(o, fp, us, cls)
    \/ \E de \in LifeDeleteEvents, fp \in LifeFailPoints : LifeDelete(de, fp)
    \/ \E ev \in LifeModifyEvents, ml \in LifeModLists, fp \in LifeFailPoints :
          LifeModify(ev, ml, fp)
    \/ \E re \in LifeReviveEvents, fp \in LifeFailPoints : LifeRevive(re, fp)
    \/ LifePurgeRecycled
    \/ LifePurgeTombstones
    \/ LifeCommit
    \/ Abort

SpecLife == Init /\ [][LifeNext]_vars

\* ----------------------------------- SpecSchema: the schema across commits
\* The write transactions of test_qs_dynamic_schema_class: a class definition
\* and entries that use the class are created and deleted, and every
\* transaction is committed or dropped.
MaxSchemaOps == MaxOps + 1
MaxSchemaWrites == 4

SchemaClassSets == {{"object", "classtype"}, {"object", "testclass"}, {"object", "person"}}

SchemaLeaves == {f_class("classtype"), f_class("testclass")}

SchemaWrite == WriteN(0, MaxSchemaWrites)

SchemaCreate(u, cls) ==
    CallN("create",
          create(txn, [origin |-> "Internal", entries |-> {new_entry(u, cls, {})}], "none"),
          MaxSchemaOps)

SchemaDelete(l) ==
    CallN("delete", delete(txn, new_internal(filter_hidden(l)), "none"), MaxSchemaOps)

\* Modifies that add a class: the dynamic one, or a core one.
SchemaModLists == {<<m_pres("testclass")>>, <<m_pres("person")>>}

SchemaModifyLeaves == SchemaLeaves \cup {f_class("person")}

SchemaModify(l, ml) ==
    CallN("modify", internal_modify(txn, filter_hidden(l), ml), MaxSchemaOps)

\* A class definition that names the attribute testattr, the definition of
\* an attribute, and the delete of the attribute definitions.
SchemaCreateClass(u) ==
    CallN("create", internal_create(txn, {new_class_entry(u, DynAttrs)}), MaxSchemaOps)

SchemaCreateAttr(u) ==
    CallN("create",
          internal_create(txn, {new_entry(u, {"object", "attributetype"}, {})}),
          MaxSchemaOps)

SchemaDeleteAttr ==
    CallN("delete",
          delete(txn, new_internal(filter_hidden(f_class("attributetype"))), "none"),
          MaxSchemaOps)

SchemaCommit == Commit(TRUE)

SchemaNext ==
    \/ SchemaWrite
    \/ \E u \in Uuids : SchemaCreateClass(u)
    \/ \E u \in Uuids : SchemaCreateAttr(u)
    \/ SchemaDeleteAttr
    \/ \E u \in Uuids, cls \in SchemaClassSets : SchemaCreate(u, cls)
    \/ \E l \in SchemaLeaves : SchemaDelete(l)
    \/ \E l \in SchemaModifyLeaves, ml \in SchemaModLists : SchemaModify(l, ml)
    \/ SchemaCommit
    \/ Abort

SpecSchema == Init /\ [][SchemaNext]_vars

\* ---------------------------------------------------------------- SpecNames
\* Named entries and the lookups by name and by uuid, as the tests
\* test_qs_name_to_uuid, test_qs_uuid_to_name, test_qs_clone_value and
\* test_qs_resolve_value run them: creates of persons, of persons in the
\* recycle bin and of tombstones, deletes, and the three lookups on the open
\* write transaction.
MaxNamesOps == MaxOps + 2
MaxNamesWrites == 2
NamesClassSets == {{"object", "person"}, {"object", "person", "recycled"}}
CreateNames == {"testperson1", "tEsTpErSoN1", "testperson2"}
CloneAttrs == {"uuid", "Member", "NaMe", "tausau"}
LookupUuids == Uuids \cup {3}

NamesWrite == WriteN(0, MaxNamesWrites)

NamesCreate(u, cls, nm) ==
    CallN("create",
          create(txn, [origin |-> "Internal",
                       entries |-> {new_named_entry(u, cls, nm)}], "none"),
          MaxNamesOps)

NamesCreateTombstone(u) ==
    CallN("create",
          create(txn, [origin |-> "Internal",
                       entries |-> {new_entry(u, {"tombstone", "object"}, {})}], "none"),
          MaxNamesOps)

NamesDelete(u) ==
    CallN("delete", delete(txn, new_internal(filter_hidden(f_uuid(u))), "none"),
          MaxNamesOps)

\* One lookup on the open transaction: it reads, and writes nothing.
Lookup(op, res, uuids, attr, arg, out) ==
    /\ txn.open
    /\ nops < MaxNamesOps
    /\ last' = [op |-> op, res |-> res, beop |-> "none", uuids |-> uuids,
                attr |-> attr, arg |-> arg, out |-> out]
    /\ nops' = nops + 1
    /\ UNCHANGED <<txn, committing, be, schema, accesscontrols, lastcommit,
                   nwrites, ih>>
    /\ UNCHANGED arcvars
    /\ UNCHANGED actorvars
    /\ UNCHANGED unixvars

NamesNameToUuid(name) ==
    LET r == name_to_uuid(txn, name) IN
    Lookup("name_to_uuid", r.res, IF r.res = "Ok" THEN {r.uuid} ELSE {}, "", name, "")

NamesUuidToName(u) ==
    LET r == uuid_to_name(txn, u) IN
    Lookup("uuid_to_name", r.res, {u}, "", "", r.name)

NamesCloneValue(attr, value) ==
    LET r == clone_value(txn, attr, value) IN
    Lookup("clone_value", r.res, IF r.uuid = NotAUuid THEN {} ELSE {r.uuid},
           attr, value, r.str)

NamesCommit == Commit(TRUE)

NamesNext ==
    \/ NamesWrite
    \/ \E u \in Uuids, cls \in NamesClassSets, nm \in CreateNames : NamesCreate(u, cls, nm)
    \/ \E u \in Uuids : NamesCreateTombstone(u)
    \/ \E u \in Uuids : NamesDelete(u)
    \/ \E name \in NameStrings : NamesNameToUuid(name)
    \/ \E u \in LookupUuids : NamesUuidToName(u)
    \/ \E attr \in CloneAttrs, value \in ValueStrings : NamesCloneValue(attr, value)
    \/ NamesCommit

SpecNames == Init /\ [][NamesNext]_vars

\* ------------------------------- SpecRevive: memberships across the recycle bin
\* One write transaction, as in test_qs_revive_advanced_directmemberships: a
\* user, its direct group and a group that holds that group are created,
\* deleted and revived, one at a time or all at once.
MaxReviveOps == MaxOps + 2
RUuids == {1, 2, 3}

\* create_user / create_group of the test: user 1, group 2 with member 1,
\* group 3 with member 2.
ReviveTemplates ==
    {new_entry(1, {"object", "person"}, {}),
     new_entry(2, {"object", "group"}, {1}),
     new_entry(3, {"object", "group"}, {2})}

ReviveLeaves == {f_uuid(u) : u \in RUuids} \cup {f_class("object")}

ReviveWrite == WriteN(0, 1)

ReviveCreate(es) ==
    CallN("create", create(txn, [origin |-> "Internal", entries |-> es], "none"),
          MaxReviveOps)

ReviveDelete(l) ==
    CallN("delete", delete(txn, new_internal(filter_hidden(l)), "none"), MaxReviveOps)

ReviveRevive(l) ==
    CallN("revive_recycled",
          revive_recycled(txn, new_rec_impersonate_entry(RUuids, l), "none"),
          MaxReviveOps)

ReviveNext ==
    \/ ReviveWrite
    \/ \E es \in (SUBSET ReviveTemplates) \ {{}} : ReviveCreate(es)
    \/ \E l \in ReviveLeaves : ReviveDelete(l)
    \/ \E l \in ReviveLeaves : ReviveRevive(l)

SpecRevive == Init /\ [][ReviveNext]_vars

\* ---------------------------------------------- SpecTxn: the concurrent view
\* QueryServer::read: be_txn (IdlArcSqlite::read), schema, accesscontrols.
ArcReadOrder == <<"entry_cache", "idl_cache", "db">>
ReadOrder == ArcReadOrder \o <<"schema", "accesscontrols">>

\* Write handles that exclude nobody.
CanAcquireAlways(part) == TRUE

\* A write handle is exclusive: write() returns once no other transaction
\* holds the part.
CanAcquire(part) == wlock[part] = 0

\* Arc::insert / Arc::remove / Arc::get on a cache transaction.
cache_insert(m, k, v) == [x \in DOMAIN m \cup {k} |-> IF x = k THEN v ELSE m[x]]
cache_remove(m, k) == [x \in DOMAIN m \ {k} |-> m[x]]
cache_hit(m, k) == k \in DOMAIN m
\* Arc::clear on a cache transaction.
cache_clear(m) == EmptyMap
\* Arc::insert once for each of the ids, with the value src holds for it.
cache_insert_all(m, ids, src) ==
    [x \in DOMAIN m \cup ids |-> IF x \in ids THEN src[x] ELSE m[x]]

\* The ids of an IDLBitRange in the order the iterator gives them.
RECURSIVE IdlSeq(_)
IdlSeq(ids) ==
    IF ids = {} THEN <<>>
    ELSE LET m == CHOOSE x \in ids : \A y \in ids : x <= y
         IN <<m>> \o IdlSeq(ids \ {m})

\* What a writer has still to commit: everything, until commit has begun.
CurPlan(w) == IF wpc[w] = "open" THEN CommitOrder ELSE wplan[w]

Other(w) == CHOOSE x \in Writers : x # w

\* QueryServer::write, one handle at a time.
Acquire(w) ==
    /\ wpc[w] \in {"idle", "acquiring"}
    /\ wpc[w] = "idle" => ntxn < MaxTxn
    /\ LET n == IF wpc[w] = "idle" THEN 0 ELSE Len(wacq[w])
           part == NextPart(w, n)
           t == IF n = 0 THEN [NoWtx EXCEPT !.id = ntxn + 1] ELSE wtx[w]
       IN
        /\ CanAcquire(part)
        /\ wlock' = [wlock EXCEPT ![part] = w]
        /\ wacq' = [wacq EXCEPT ![w] = IF n = 0 THEN <<part>> ELSE Append(@, part)]
        /\ ntxn' = IF n = 0 THEN ntxn + 1 ELSE ntxn
        /\ wtx' = [wtx EXCEPT ![w] =
                    CASE part = "entry_cache" -> [t EXCEPT !.ec = entry_cache]
                      [] part = "idl_cache" -> [t EXCEPT !.ic = idl_cache]
                      [] part = "db" -> [t EXCEPT !.db = sdb, !.idl = sidl]
                      [] OTHER -> t]
        /\ wpc' = [wpc EXCEPT ![w] =
                    IF n + 1 = Len(WriteOrder) THEN "open" ELSE "acquiring"]
        /\ clog' = IF n = 0 THEN [clog EXCEPT ![w] = <<>>] ELSE clog
        /\ wres' = IF n = 0 THEN [wres EXCEPT ![w] = "none"] ELSE wres
        /\ wplan' = IF n = 0 THEN [wplan EXCEPT ![w] = <<>>] ELSE wplan
    /\ UNCHANGED <<sdb, sidl, entry_cache, idl_cache, cschema, cacp, rpc, rtx,
                   robs, hist, nreads>>
    /\ UNCHANGED qsvars
    /\ UNCHANGED actorvars
    /\ UNCHANGED unixvars

\* One backend operation of an open write transaction.
ArcOp(w, t) ==
    /\ wpc[w] = "open"
    /\ wtx[w].nops < MaxTxnOps
    /\ wtx' = [wtx EXCEPT ![w] = [t EXCEPT !.nops = @ + 1]]
    /\ UNCHANGED <<sdb, sidl, entry_cache, idl_cache, cschema, cacp, wlock, wpc,
                   wacq, wplan, clog, wres, rpc, rtx, robs, hist, ntxn, nreads>>
    /\ UNCHANGED qsvars
    /\ UNCHANGED actorvars
    /\ UNCHANGED unixvars

\* db.write_identries: the storage transaction takes the entry, or refuses
\* the write and is left as it was.
db_write_identries(sdbt, id, v, db_ok) ==
    IF db_ok THEN cache_insert(sdbt, id, v) ELSE sdbt

\* db.delete_identry: the storage transaction drops the entry, or refuses
\* and is left as it was.
db_delete_identry(sdbt, id, db_ok) ==
    IF db_ok THEN cache_remove(sdbt, id) ELSE sdbt

\* IdlArcSqliteWriteTransaction::write_identries: the entries are handed to
\* db.write_identries through a map that puts each entry it is asked for
\* into the cache transaction; the result of the call is the result of the
\* storage layer, and on its Err nothing is taken out of the cache again.
\* An Err raised before the storage layer has asked for the entry changes
\* nothing: it is no step of the model.
write_identries(t, id, db_ok) ==
    [t EXCEPT !.ec = cache_insert(@, id, t.id),
              !.db = db_write_identries(@, id, t.id, db_ok)]

\* IdlArcSqliteWriteTransaction::delete_identry: the ids are handed to
\* db.delete_identry through a map that removes each id it is asked for
\* from the cache transaction; on the Err of the storage layer nothing is put
\* back.
delete_identry(t, id, db_ok) ==
    [t EXCEPT !.ec = cache_remove(@, id), !.db = db_delete_identry(@, id, db_ok)]

\* IdlArcSqliteWriteTransaction::write_identries_raw: the entry cache is
\* dropped, the raw entry goes into the storage transaction.
write_identries_raw(t, id) ==
    [t EXCEPT !.ec = cache_clear(@), !.db = cache_insert(@, id, t.id)]

\* db.write_idl: the storage transaction takes the posting list when it has
\* the index, and refuses the write, unchanged, when it has not.
db_write_idl(sidx, idl) == IF sidx # <<>> THEN <<idl>> ELSE sidx

\* A write_idl that takes the key out of the cache when the posting list is
\* empty, as the storage layer does.
write_idl_drop_empty(t, k, idl) ==
    [t EXCEPT !.ic = IF idl = {} THEN cache_remove(@, k) ELSE cache_insert(@, k, idl),
              !.idl = db_write_idl(@, idl)]

\* IdlArcSqliteWriteTransaction::write_idl: the posting list, an empty one as
\* an empty list, is put into the cache, and then db.write_idl is called,
\* whose result is the result of the call.
write_idl(t, k, idl) ==
    [t EXCEPT !.ic = cache_insert(@, k, idl), !.idl = db_write_idl(@, idl)]

\* IdlArcSqliteWriteTransaction::create_idx: passed down to the storage
\* layer, which creates the index, empty, unless it exists.
create_idx(t) == [t EXCEPT !.idl = IF @ = <<>> THEN <<{}>> ELSE @]

\* IdlArcSqliteWriteTransaction::purge_idxs: the storage layer drops its
\* indexes, then the IDL cache is cleared.
purge_idxs(t) == [t EXCEPT !.idl = <<>>, !.ic = cache_clear(@)]

\* IdlArcSqliteWriteTransaction::purge_id2entry: the storage layer drops its
\* entries, then the entry cache is cleared.
purge_id2entry(t) == [t EXCEPT !.db = EmptyMap, !.ec = cache_clear(@)]

WriteIdentries(w, id, db_ok) == ArcOp(w, write_identries(wtx[w], id, db_ok))

DeleteIdentry(w, id, db_ok) == ArcOp(w, delete_identry(wtx[w], id, db_ok))

WriteIdl(w, k, idl) == ArcOp(w, write_idl(wtx[w], k, idl))

CreateIdx(w) == ArcOp(w, create_idx(wtx[w]))

\* One step of commit by writer w: part is committed (its handle released),
\* rest is what is left to commit. With nothing left the transaction is over
\* and every handle it still holds is dropped.
CommitStep(w, logged, released, rest, failed) ==
    /\ wplan' = [wplan EXCEPT ![w] = rest]
    /\ clog' = [clog EXCEPT ![w] = @ \o logged]
    /\ wpc' = [wpc EXCEPT ![w] = IF rest = <<>> THEN "idle" ELSE "commit"]
    /\ wres' = [wres EXCEPT ![w] =
                  IF failed THEN "Backend"
                  ELSE IF rest = <<>> /\ @ = "none" THEN "Ok" ELSE @]
    /\ wlock' = [p \in Parts |->
                  IF wlock[p] = w /\ (p \in released \/ rest = <<>>)
                  THEN 0 ELSE wlock[p]]
    /\ wtx' = IF rest = <<>> THEN [wtx EXCEPT ![w] = NoWtx] ELSE wtx
    /\ UNCHANGED <<wacq, rpc, rtx, robs, ntxn, nreads>>
    /\ UNCHANGED qsvars
    /\ UNCHANGED actorvars
    /\ UNCHANGED unixvars

Committing(w) == wpc[w] \in {"open", "commit"} /\ CurPlan(w) # <<>>

\* schema.commit()
CommitSchema(w) ==
    /\ Committing(w)
    /\ Head(CurPlan(w)) = "schema"
    /\ cschema' = wtx[w].id
    /\ CommitStep(w, <<"schema">>, {"schema"}, Tail(CurPlan(w)), FALSE)
    /\ UNCHANGED <<sdb, sidl, entry_cache, idl_cache, cacp, hist>>

\* accesscontrols.commit()
CommitAcp(w) ==
    /\ Committing(w)
    /\ Head(CurPlan(w)) = "accesscontrols"
    /\ cacp' = wtx[w].id
    /\ CommitStep(w, <<"accesscontrols">>, {"accesscontrols"}, Tail(CurPlan(w)), FALSE)
    /\ UNCHANGED <<sdb, sidl, entry_cache, idl_cache, cschema, hist>>

\* be_txn.commit(): db.commit() of IdlArcSqliteWriteTransaction::commit, which
\* returns db_ok. On an error the rest of the and_then chain is skipped.
CommitDb(w, db_ok) ==
    /\ Committing(w)
    /\ Head(CurPlan(w)) = "be_txn"
    /\ IF db_ok
       THEN /\ sdb' = wtx[w].db
            /\ sidl' = wtx[w].idl
            /\ hist' = hist \cup {[db |-> wtx[w].db, idl |-> wtx[w].idl]}
            /\ CommitStep(w, <<"db">>, {"db"},
                          idl_arc_commit(TRUE) \o Tail(CurPlan(w)), FALSE)
       ELSE /\ UNCHANGED <<sdb, sidl, hist>>
            /\ CommitStep(w, <<>>, {"db"}, idl_arc_commit(FALSE), TRUE)
    /\ UNCHANGED <<entry_cache, idl_cache, cschema, cacp>>

\* idl_cache.commit()
CommitIdlCache(w) ==
    /\ Committing(w)
    /\ Head(CurPlan(w)) = "idl_cache"
    /\ idl_cache' = wtx[w].ic
    /\ CommitStep(w, <<"idl_cache">>, {"idl_cache"}, Tail(CurPlan(w)), FALSE)
    /\ UNCHANGED <<sdb, sidl, entry_cache, cschema, cacp, hist>>

\* entry_cache.commit()
CommitEntryCache(w) ==
    /\ Committing(w)
    /\ Head(CurPlan(w)) = "entry_cache"
    /\ entry_cache' = wtx[w].ec
    /\ CommitStep(w, <<"entry_cache">>, {"entry_cache"}, Tail(CurPlan(w)), FALSE)
    /\ UNCHANGED <<sdb, sidl, idl_cache, cschema, cacp, hist>>

\* The open write transaction is dropped without commit.
Drop(w) ==
    /\ wpc[w] = "open"
    /\ wpc' = [wpc EXCEPT ![w] = "idle"]
    /\ wres' = [wres EXCEPT ![w] = "Dropped"]
    /\ wlock' = [p \in Parts |-> IF wlock[p] = w THEN 0 ELSE wlock[p]]
    /\ wtx' = [wtx EXCEPT ![w] = NoWtx]
    /\ UNCHANGED <<sdb, sidl, entry_cache, idl_cache, cschema, cacp, wacq, wplan,
                   clog, rpc, rtx, robs, hist, ntxn, nreads>>
    /\ UNCHANGED qsvars
    /\ UNCHANGED actorvars
    /\ UNCHANGED unixvars

\* QueryServer::read, one snapshot at a time; no step of it waits for a
\* writer. The schema and access control snapshots are taken, and not kept:
\* no backend read looks at them.
ReadAcquire ==
    /\ rpc \in {"idle", "acquiring"}
    /\ rpc = "idle" => nreads < MaxReads
    /\ LET t == IF rpc = "idle" THEN NoRtx ELSE rtx
           part == ReadOrder[Len(t.acq) + 1]
           t2 == CASE part = "entry_cache" -> [t EXCEPT !.ec = entry_cache]
                   [] part = "idl_cache" -> [t EXCEPT !.ic = idl_cache]
                   [] part = "db" -> [t EXCEPT !.db = sdb, !.idl = sidl]
                   [] OTHER -> t
       IN
        /\ rtx' = [t2 EXCEPT !.acq = Append(@, part)]
        /\ rpc' = IF Len(t.acq) + 1 = Len(ReadOrder) THEN "open" ELSE "acquiring"
        /\ nreads' = IF rpc = "idle" THEN nreads + 1 ELSE nreads
        /\ robs' = IF rpc = "idle" THEN NoObs ELSE robs
    /\ UNCHANGED <<sdb, sidl, entry_cache, idl_cache, cschema, cacp, wlock, wpc,
                   wtx, wacq, wplan, clog, wres, hist, ntxn>>
    /\ UNCHANGED qsvars
    /\ UNCHANGED actorvars
    /\ UNCHANGED unixvars

\* get_identry! with IDL::Partial / IDL::Indexed of one id: the cached entry
\* on a hit, else the stored one, which is then cached.
get_identry(t, id) ==
    IF cache_hit(t.ec, id) THEN [t |-> t, r |-> {<<id, t.ec[id]>>}]
    ELSE IF cache_hit(t.db, id)
    THEN [t |-> [t EXCEPT !.ec = cache_insert(@, id, t.db[id])],
          r |-> {<<id, t.db[id]>>}]
    ELSE [t |-> t, r |-> {<<id, 0>>}]

\* get_identry! with IDL::Partial / IDL::Indexed of a set of ids: result is
\* the Vec returned (the cache hits, then what storage returned for nidl,
\* the ids that missed), t the transaction with db_result put in the cache.
get_identry_idl(t, idl) ==
    LET hits == IdlSeq({i \in idl : cache_hit(t.ec, i)})
        nidl == {i \in idl : ~cache_hit(t.ec, i)}
        found == IdlSeq({i \in nidl : cache_hit(t.db, i)})
        result == [n \in 1..Len(hits) |-> <<hits[n], t.ec[hits[n]]>>]
        db_result == [n \in 1..Len(found) |-> <<found[n], t.db[found[n]]>>]
    IN [t |-> [t EXCEPT !.ec = cache_insert_all(@, {i \in nidl : cache_hit(t.db, i)}, t.db)],
        result |-> result \o db_result,
        nidl |-> nidl]

\* get_identry! with IDL::ALLIDS: straight from storage.
get_identry_allids(t) ==
    [t |-> t,
     r |-> {<<id, IF cache_hit(t.db, id) THEN t.db[id] ELSE 0>> : id \in ArcIds}]

\* get_idl!: Some of the cached posting list on a hit; else what the storage
\* transaction returns: Some of the stored list, which is then cached, or
\* None (no such index), which is not. An Option is a sequence of at most
\* one element.
get_idl(t, k) ==
    IF cache_hit(t.ic, k) THEN [t |-> t, r |-> <<t.ic[k]>>]
    ELSE IF t.idl # <<>>
    THEN [t |-> [t EXCEPT !.ic = cache_insert(@, k, t.idl[1])], r |-> t.idl]
    ELSE [t |-> t, r |-> <<>>]

\* get_idl! asks the storage transaction: the key is not in the cache.
get_idl_from_db(t, k) == ~cache_hit(t.ic, k)

ReadOp(t2, ents, idls) ==
    /\ rpc = "open"
    /\ rtx' = t2
    /\ robs' = [ents |-> robs.ents \cup ents, idls |-> robs.idls \cup idls]
    /\ UNCHANGED <<sdb, sidl, entry_cache, idl_cache, cschema, cacp, wlock, wpc,
                   wtx, wacq, wplan, clog, wres, rpc, hist, ntxn, nreads>>
    /\ UNCHANGED qsvars
    /\ UNCHANGED actorvars
    /\ UNCHANGED unixvars

GetIdentry(id) ==
    LET g == get_identry(rtx, id) IN ReadOp(g.t, g.r, {})

GetIdentryAllIds ==
    LET g == get_identry_allids(rtx) IN ReadOp(g.t, g.r, {})

GetIdl(k) ==
    LET g == get_idl(rtx, k) IN ReadOp(g.t, {}, {g.r})

\* The read transaction is dropped.
ReadClose ==
    /\ rpc = "open"
    /\ rpc' = "idle"
    /\ rtx' = NoRtx
    /\ robs' = NoObs
    /\ UNCHANGED <<sdb, sidl, entry_cache, idl_cache, cschema, cacp, wlock, wpc,
                   wtx, wacq, wplan, clog, wres, hist, ntxn, nreads>>
    /\ UNCHANGED qsvars
    /\ UNCHANGED actorvars
    /\ UNCHANGED unixvars

\* The entry the transactions of SpecTxn and of SpecCache write: its
\* versions are told apart by the transaction that wrote them.
TxnIds == {1}

TxnNext ==
    \/ \E w \in Writers : Acquire(w)
    \/ \E w \in Writers, id \in TxnIds, db_ok \in BOOLEAN : WriteIdentries(w, id, db_ok)
    \/ \E w \in Writers, id \in TxnIds, db_ok \in BOOLEAN : DeleteIdentry(w, id, db_ok)
    \/ \E w \in Writers, k \in IdxKeys, idl \in Idls : WriteIdl(w, k, idl)
    \/ \E w \in Writers : CreateIdx(w)
    \/ \E w \in Writers : CommitSchema(w)
    \/ \E w \in Writers : CommitAcp(w)
    \/ \E w \in Writers, db_ok \in BOOLEAN : CommitDb(w, db_ok)
    \/ \E w \in Writers : CommitIdlCache(w)
    \/ \E w \in Writers : CommitEntryCache(w)
    \/ \E w \in Writers : Drop(w)
    \/ ReadAcquire
    \/ \E id \in TxnIds : GetIdentry(id)
    \/ GetIdentryAllIds
    \/ \E k \in IdxKeys : GetIdl(k)
    \/ ReadClose

SpecTxn == Init /\ [][TxnNext]_vars

\* ----------------------------------------------------------------- SpecInit
\* The server is initialised by one call of initialise_helper(ts), in which
\* upgrade_reindex and the backend commit can fail; once it has returned Ok
\* initialise_schema_core and initialise_idm are run again, any number of
\* times, in write transactions that are committed or dropped, as
\* test_qs_init_idempotent_schema_core does.
MaxInitOps == MaxOps + 1
MaxInitWrites == 4
InitTimes == 0..1

LogEvent(ev, step, res) == [ev |-> ev, op |-> step.op, v |-> step.v, res |-> res]

\* let mut w = self.write(ts), for the next step: one step of the write,
\* which is logged when it returns.
HelperWrite(ts) ==
    /\ ih.st \in {"idle", "committed", "writing"}
    /\ (ih.st # "idle") => (ts = ih.ts)
    /\ ih.pc < Len(HelperSteps)
    /\ WriteTakes(ts)
    /\ ih' = IF txn'.open
             THEN [pc |-> ih.pc + 1, st |-> "open", ts |-> ts,
                   log |-> Append(ih.log,
                                  LogEvent("write", HelperSteps[ih.pc + 1], "Ok"))]
             ELSE [ih EXCEPT !.st = "writing", !.ts = ts]
    /\ UNCHANGED <<nops, nwrites>>
    /\ UNCHANGED arcvars
    /\ UNCHANGED actorvars
    /\ UNCHANGED unixvars

\* w.upgrade_reindex(..) / w.initialise_..(..): on an error the and_then
\* chain ends, initialise_helper returns the error and w is dropped.
HelperRun(ok) ==
    /\ ih.st = "open"
    /\ (HelperSteps[ih.pc].op # "upgrade_reindex") => ok
    /\ LET step == HelperSteps[ih.pc]
           r == run_step(txn, step, ok)
       IN /\ txn' = IF r.res = "Ok" THEN r.t ELSE NoTxn
          /\ ih' = [ih EXCEPT !.st = IF r.res = "Ok" THEN "ran" ELSE "failed",
                              !.log = Append(@, LogEvent("run", step, r.res))]
          /\ last' = [NoLast EXCEPT !.op = step.op, !.res = r.res]
    /\ UNCHANGED <<be, schema, accesscontrols, committing, lastcommit, nops,
                   nwrites>>
    /\ UNCHANGED arcvars
    /\ UNCHANGED actorvars
    /\ UNCHANGED unixvars

\* .and_then(|_| w.commit(audit))?: one step of the commit, which is logged
\* when it returns.
HelperCommit(be_ok) ==
    /\ \/ ih.st = "ran" /\ \E acp_ok \in BOOLEAN : CommitCalled(acp_ok, be_ok)
       \/ ih.st = "committing" /\ CommitPart
    /\ ih' = IF committing' # NoCommitting
             THEN [ih EXCEPT !.st = "committing"]
             ELSE [ih EXCEPT
                     !.st = IF lastcommit'.res # "Ok" THEN "failed"
                            ELSE IF ih.pc = Len(HelperSteps) THEN "done"
                            ELSE "committed",
                     !.log = Append(@, LogEvent("commit", HelperSteps[ih.pc],
                                                lastcommit'.res))]
    /\ UNCHANGED <<nops, nwrites>>
    /\ UNCHANGED arcvars
    /\ UNCHANGED actorvars
    /\ UNCHANGED unixvars

InitWrite(ts) == ih.st = "done" /\ WriteN(ts, MaxInitWrites)

InitSchemaCore ==
    /\ ih.st = "done"
    /\ CallN("initialise_schema_core", initialise_schema_core(txn), MaxInitOps)

InitIdm ==
    /\ ih.st = "done"
    /\ CallN("initialise_idm", initialise_idm(txn), MaxInitOps)

InitCommit == ih.st = "done" /\ Commit(TRUE)

InitAbort == ih.st = "done" /\ Abort

InitNext ==
    \/ \E ts \in InitTimes : HelperWrite(ts)
    \/ \E ok \in BOOLEAN : HelperRun(ok)
    \/ \E be_ok \in BOOLEAN : HelperCommit(be_ok)
    \/ \E ts \in InitTimes : InitWrite(ts)
    \/ InitSchemaCore
    \/ InitIdm
    \/ InitCommit
    \/ InitAbort

SpecInit == Init /\ [][InitNext]_vars

\* -------------------------------------------------------------- SpecMigrate
\* Entries are created, with a name or without, and internal_migrate_or_create
\* is called with entries of the same and of other uuids, of other classes,
\* and without uuid, in write transactions that are committed.
MaxMigOps == MaxOps + 1
MaxMigWrites == 2
MigStoredClassSets ==
    { {"object", "person"}, {"object", "group"}, {"object", "person", "recycled"} }
MigClassSets == { {"object", "person"}, {"object", "group"}, {"object", "testclass"} }
MigNames == {"testperson1"}
\* The entries internal_migrate_or_create is called with.
MigEntries == {new_entry(u, cls, {}) : u \in Uuids \cup {NotAUuid}, cls \in MigClassSets}

MigWrite == WriteN(1, MaxMigWrites)

MigCreate(u, cls) ==
    CallN("create", internal_create(txn, {new_entry(u, cls, {})}), MaxMigOps)

MigCreateNamed(u, nm) ==
    CallN("create",
          internal_create(txn, {new_named_entry(u, {"object", "person"}, nm)}),
          MaxMigOps)

\* One call of internal_migrate_or_create; the entry it is called with is
\* kept with the result.
MigMigrate(e) ==
    /\ txn.open
    /\ nops < MaxMigOps
    /\ LET r == internal_migrate_or_create(txn, e) IN
        /\ txn' = [r.t EXCEPT
                     !.touched_schema =
                        @ \/ (r.res = "Ok" /\ \E c \in r.cands : IsSchemaEntry(c)),
                     !.touched_acp =
                        @ \/ (r.res = "Ok" /\ \E c \in r.cands : IsAcpEntry(c))]
        /\ last' = [op |-> "internal_migrate_or_create", res |-> r.res,
                    beop |-> r.beop, uuids |-> {c.uuid : c \in r.cands},
                    attr |-> "", arg |-> "", out |-> "", entry |-> e]
    /\ nops' = nops + 1
    /\ UNCHANGED <<be, schema, accesscontrols, committing, lastcommit, nwrites, ih>>
    /\ UNCHANGED arcvars
    /\ UNCHANGED actorvars
    /\ UNCHANGED unixvars

MigCommit == Commit(TRUE)

MigNext ==
    \/ MigWrite
    \/ \E u \in Uuids, cls \in MigStoredClassSets : MigCreate(u, cls)
    \/ \E u \in Uuids, nm \in MigNames : MigCreateNamed(u, nm)
    \/ \E e \in MigEntries : MigMigrate(e)
    \/ MigCommit

SpecMigrate == Init /\ [][MigNext]_vars

\* ------------------------------------------------------------- SpecInterval
\* The interval actor, clients and the write server: the actor and the
\* clients send messages to the mailbox of the write server, which handles
\* them one by one, each in a write transaction opened at the time of the
\* clock. constants.rs and the handlers of the write server are not part of
\* the sources at hand: PURGE_FREQUENCY is scaled as the two ages are, and a
\* handler is write, the operation, and commit when the operation is Ok.
PURGE_FREQUENCY == 2
\* Messages of clients waiting in the mailbox at one time.
MaxClientMsgs == 1
\* Messages waiting in the mailbox at one time: do_send knows no limit, and
\* the behaviours in which more of them wait are left unexplored.
MaxMailbox == 3
\* The age from which on the purges tell no two timestamps apart: older than
\* both maximum ages.
MaxAge ==
    (IF RECYCLEBIN_MAX_AGE > CHANGELOG_MAX_AGE
     THEN RECYCLEBIN_MAX_AGE ELSE CHANGELOG_MAX_AGE) + 1
ActorUuids == {1}
\* The pre-operation and the post-operation plugins work, or one of them
\* refuses.
PluginFailPoints == {"none", "pre", "post"}

PurgeRecycledEvent == [ev |-> "PurgeRecycledEvent", uuid |-> 0]
PurgeTombstoneEvent == [ev |-> "PurgeTombstoneEvent", uuid |-> 0]
ClientEvents ==
    {[ev |-> k, uuid |-> u] :
        k \in {"CreateEvent", "DeleteEvent", "ReviveRecycledEvent"},
        u \in ActorUuids}

\* Addr::do_send: the message is put into the mailbox, nothing is awaited.
do_send(q, msg) == Append(q, msg)

\* Actor::started of IntervalActor: two run_interval of PURGE_FREQUENCY
\* seconds.
IntervalStarted ==
    /\ due = NotStarted
    /\ due' = [purge_recycled |-> clock + PURGE_FREQUENCY,
               purge_tombstones |-> clock + PURGE_FREQUENCY]
    /\ UNCHANGED <<clock, mbox, cur>>
    /\ UNCHANGED <<qsvars, arcvars>>
    /\ UNCHANGED unixvars

\* run_interval: the interval set for the time at runs its closure now.
Due(at) == at = clock

\* A send to the mailbox q stays within the mailboxes that are explored.
Explored(q) == Len(q) < MaxMailbox

\* A second passes. The program reads the time of the system, which no
\* actor holds back; an interval that is due runs its closure before, at
\* its second. The actor is started with the system.
\* Timestamps are compared, never read for themselves: the purges ask
\* whether an entry is more than a maximum age older than their
\* transaction. So the model counts its seconds from an origin that moves
\* with the time, MaxAge before the timestamp of the write transaction that
\* is under way or, with none under way, MaxAge before the present; an older
\* timestamp is kept at the origin, and so is the start of a transaction
\* that has lasted longer than MaxAge: each is older than every age asked
\* for. However long the system runs, the numbers of the model stay small.
Tick ==
    /\ due # NotStarted
    /\ ~Due(due.purge_recycled)
    /\ ~Due(due.purge_tombstones)
    /\ LET now == clock + 1
           started == IF txn.acq > 0 THEN txn.cid ELSE now
           s == started - MaxAge
           present == IF now > started + MaxAge THEN started + MaxAge ELSE now
           \* the timestamp c counted from the origin s; what lies before the
           \* origin is at the origin
           renumber(c) == IF c > s THEN c - s ELSE 0
           renumber_entries(ents) == {[x EXCEPT !.cid = renumber(@)] : x \in ents}
       IN /\ clock' = present - s
          /\ due' = [k \in DOMAIN due |-> clock' + (due[k] - now)]
          /\ be' = renumber_entries(be)
          /\ txn' = IF txn.acq > 0
                    THEN [txn EXCEPT !.cid = MaxAge, !.be = renumber_entries(@)]
                    ELSE txn
          /\ committing' = [committing EXCEPT !.be = renumber_entries(@)]
    /\ UNCHANGED <<schema, accesscontrols, last, lastcommit, nops, nwrites, ih>>
    /\ UNCHANGED <<mbox, cur>>
    /\ UNCHANGED arcvars
    /\ UNCHANGED unixvars

\* IntervalActor::purge_recycled, run by the first interval
IntervalPurgeRecycled ==
    /\ Due(due.purge_recycled)
    /\ Explored(mbox)
    /\ mbox' = do_send(mbox, PurgeRecycledEvent)
    /\ due' = [due EXCEPT !.purge_recycled = clock + PURGE_FREQUENCY]
    /\ UNCHANGED <<clock, cur>>
    /\ UNCHANGED <<qsvars, arcvars>>
    /\ UNCHANGED unixvars

\* A second interval that sends the message of the first.
IntervalPurgeTombstonesAsRecycled ==
    /\ Due(due.purge_tombstones)
    /\ Explored(mbox)
    /\ mbox' = do_send(mbox, PurgeRecycledEvent)
    /\ due' = [due EXCEPT !.purge_tombstones = clock + PURGE_FREQUENCY]
    /\ UNCHANGED <<clock, cur>>
    /\ UNCHANGED <<qsvars, arcvars>>
    /\ UNCHANGED unixvars

\* IntervalActor::purge_tombstones, run by the second interval
IntervalPurgeTombstones ==
    /\ Due(due.purge_tombstones)
    /\ Explored(mbox)
    /\ mbox' = do_send(mbox, PurgeTombstoneEvent)
    /\ due' = [due EXCEPT !.purge_tombstones = clock + PURGE_FREQUENCY]
    /\ UNCHANGED <<clock, cur>>
    /\ UNCHANGED <<qsvars, arcvars>>
    /\ UNCHANGED unixvars

\* A client asks for a create or a delete.
ClientSend(msg) ==
    /\ Cardinality({i \in 1..Len(mbox) : mbox[i] \in ClientEvents}) < MaxClientMsgs
    /\ Explored(mbox)
    /\ mbox' = do_send(mbox, msg)
    /\ UNCHANGED <<clock, due, cur>>
    /\ UNCHANGED <<qsvars, arcvars>>
    /\ UNCHANGED unixvars

\* The operation the write server runs for a message; fp is where a plugin
\* or the access controls refuse. The purges take no such argument: they
\* search and write to the backend themselves.
handle(t, msg, fp) ==
    CASE msg.ev = "CreateEvent" ->
           create(t, [origin |-> "User",
                      entries |-> {new_entry(msg.uuid, {"object", "person"}, {})}], fp)
      [] msg.ev = "DeleteEvent" ->
           delete(t, new_impersonate_entry(Uuids, f_uuid(msg.uuid)), fp)
      [] msg.ev = "ReviveRecycledEvent" ->
           revive_recycled(t, new_rec_impersonate_entry(Uuids, f_uuid(msg.uuid)), fp)
      [] msg.ev = "PurgeRecycledEvent" -> purge_recycled(t)
      [] msg.ev = "PurgeTombstoneEvent" -> purge_tombstones(t)

\* The write server takes the next message and opens its write transaction
\* with the time of that moment: one step of the write.
HandleWrite ==
    /\ IF txn.acq = 0
       THEN /\ cur = NoMessage
            /\ mbox # <<>>
            /\ cur' = Head(mbox)
            /\ mbox' = Tail(mbox)
            /\ WriteTakes(clock)
       ELSE /\ cur # NoMessage
            /\ WriteTakes(txn.cid)
            /\ UNCHANGED <<cur, mbox>>
    /\ UNCHANGED <<nops, nwrites, ih, clock, due>>
    /\ UNCHANGED arcvars
    /\ UNCHANGED unixvars

\* It runs the operation; an error ends the handler, and the transaction is
\* dropped.
HandleRun(fp) ==
    /\ cur # NoMessage
    /\ txn.open
    /\ last.op = "none"
    /\ LET r == handle(txn, cur, fp) IN
        /\ txn' = IF r.res = "Ok" THEN r.t ELSE NoTxn
        /\ cur' = IF r.res = "Ok" THEN cur ELSE NoMessage
        /\ last' = [op |-> cur.ev, res |-> r.res, beop |-> r.beop,
                    uuids |-> {e.uuid : e \in r.cands},
                    attr |-> "", arg |-> "", out |-> "", fp |-> fp]
    /\ UNCHANGED <<be, schema, accesscontrols, committing, lastcommit, nops,
                   nwrites, ih>>
    /\ UNCHANGED <<clock, due, mbox>>
    /\ UNCHANGED arcvars
    /\ UNCHANGED unixvars

\* It commits: the call of commit, in which the reload of the access
\* controls and the backend work or fail, or the next part of the commit;
\* with the last part, or with the error, the handler returns.
HandleCommit(acp_ok, be_ok) ==
    /\ cur # NoMessage
    /\ \/ last.op # "none" /\ CommitCalled(acp_ok, be_ok)
       \/ CommitPart
    /\ cur' = IF committing' = NoCommitting THEN NoMessage ELSE cur
    /\ UNCHANGED <<nops, nwrites, ih, clock, due, mbox>>
    /\ UNCHANGED arcvars
    /\ UNCHANGED unixvars

IntervalNext ==
    \/ IntervalStarted
    \/ Tick
    \/ IntervalPurgeRecycled
    \/ IntervalPurgeTombstones
    \/ \E msg \in ClientEvents : ClientSend(msg)
    \/ HandleWrite
    \/ \E fp \in PluginFailPoints : HandleRun(fp)
    \/ \E acp_ok, be_ok \in BOOLEAN : HandleCommit(acp_ok, be_ok)

SpecInterval == Init /\ [][IntervalNext]_vars

\* ------------------------------------------------------------------ SpecCid
\* A user and a group that holds it are written over write transactions of
\* growing timestamps: created, modified, deleted, and purged from the
\* recycle bin.
MaxCidOps == MaxOps + 2
MaxCidWrites == 3
CidTimes == 0..(RECYCLEBIN_MAX_AGE + 1)
CidTemplates ==
    {new_entry(1, {"object", "person"}, {}),
     new_entry(2, {"object", "group"}, {1})}
CidLeaves == {f_uuid(1), f_uuid(2), f_class("object")}

\* The timestamp is the one of the last write transaction, or a later one.
CidWrite(ts) ==
    /\ (txn.acq = 0) => (\A e \in be \cup committing.be : e.cid <= ts)
    /\ WriteN(ts, MaxCidWrites)

CidCreate(e) == CallN("create", internal_create(txn, {e}), MaxCidOps)

CidModify(l) ==
    CallN("modify", internal_modify(txn, filter_hidden(l), <<m_pres("object")>>),
          MaxCidOps)

CidDelete(l) ==
    CallN("delete", delete(txn, new_internal(filter_hidden(l)), "none"), MaxCidOps)

CidPurgeRecycled == CallN("purge_recycled", purge_recycled(txn), MaxCidOps)

CidCommit == Commit(TRUE)

CidNext ==
    \/ \E ts \in CidTimes : CidWrite(ts)
    \/ \E e \in CidTemplates : CidCreate(e)
    \/ \E l \in CidLeaves : CidModify(l)
    \/ \E l \in CidLeaves : CidDelete(l)
    \/ CidPurgeRecycled
    \/ CidCommit

SpecCid == Init /\ [][CidNext]_vars

\* ---------------------------------------------------------------- SpecCache
\* The cached layer under one writer: write transactions one after the
\* other, each running the operations of IdlArcSqliteWriteTransaction and
\* then committed or dropped, and a reader. last remembers the latest
\* operation of a write transaction, and in uuids the posting list it wrote.
CacheWriter == 1

CacheOp(op, idl, t) ==
    /\ wpc[CacheWriter] = "open"
    /\ wtx[CacheWriter].nops < MaxTxnOps
    /\ wtx' = [wtx EXCEPT ![CacheWriter] = [t EXCEPT !.nops = @ + 1]]
    /\ last' = [NoLast EXCEPT !.op = op, !.uuids = idl]
    /\ UNCHANGED <<sdb, sidl, entry_cache, idl_cache, cschema, cacp, wlock, wpc,
                   wacq, wplan, clog, wres, rpc, rtx, robs, hist, ntxn, nreads>>
    /\ UNCHANGED <<be, schema, accesscontrols, txn, committing, lastcommit, nops,
                   nwrites, ih>>
    /\ UNCHANGED actorvars
    /\ UNCHANGED unixvars

CacheWriteIdentries(id, db_ok) ==
    CacheOp("write_identries", {}, write_identries(wtx[CacheWriter], id, db_ok))

CacheWriteIdentriesRaw(id) ==
    CacheOp("write_identries_raw", {}, write_identries_raw(wtx[CacheWriter], id))

CacheDeleteIdentry(id, db_ok) ==
    CacheOp("delete_identry", {}, delete_identry(wtx[CacheWriter], id, db_ok))

CacheWriteIdl(k, idl) ==
    CacheOp("write_idl", idl, write_idl(wtx[CacheWriter], k, idl))

CacheCreateIdx == CacheOp("create_idx", {}, create_idx(wtx[CacheWriter]))

CachePurgeIdxs == CacheOp("purge_idxs", {}, purge_idxs(wtx[CacheWriter]))

CachePurgeId2entry == CacheOp("purge_id2entry", {}, purge_id2entry(wtx[CacheWriter]))

\* IdlArcSqliteWriteTransaction::get_identry
CacheGetIdentry(idl) ==
    CacheOp("get_identry", {}, get_identry_idl(wtx[CacheWriter], idl).t)

\* IdlArcSqliteWriteTransaction::get_idl
CacheGetIdl(k) == CacheOp("get_idl", {}, get_idl(wtx[CacheWriter], k).t)

\* A behaviour of SpecCache has one read transaction.
CacheReadAcquire == ((rpc = "idle") => (nreads = 0)) /\ ReadAcquire

CacheNext ==
    \/ Acquire(CacheWriter)
    \/ \E id \in TxnIds, db_ok \in BOOLEAN : CacheWriteIdentries(id, db_ok)
    \/ \E id \in TxnIds : CacheWriteIdentriesRaw(id)
    \/ \E id \in TxnIds, db_ok \in BOOLEAN : CacheDeleteIdentry(id, db_ok)
    \/ \E k \in IdxKeys, idl \in Idls : CacheWriteIdl(k, idl)
    \/ CacheCreateIdx
    \/ CachePurgeIdxs
    \/ CachePurgeId2entry
    \/ \E idl \in SUBSET ArcIds : CacheGetIdentry(idl)
    \/ \E k \in IdxKeys : CacheGetIdl(k)
    \/ CommitSchema(CacheWriter)
    \/ CommitAcp(CacheWriter)
    \/ \E db_ok \in BOOLEAN : CommitDb(CacheWriter, db_ok)
    \/ CommitIdlCache(CacheWriter)
    \/ CommitEntryCache(CacheWriter)
    \/ Drop(CacheWriter)
    \/ CacheReadAcquire
    \/ \E k \in IdxKeys : GetIdl(k)
    \/ ReadClose

SpecCache == Init /\ [][CacheNext]_vars

\* ------------------------------------------------------ properties of SpecQS
\* A handler call has just been made on the open transaction.
Called == nops' = nops + 1

\* C1: a create, modify or delete call that returns an error leaves the
\* entries of the transaction exactly as they were before the call, at every
\* failure point, the post-operation plugins included.
C1_FailedCallChangesNothing ==
    [][(Called /\ last'.op \in {"create", "modify", "delete"} /\ last'.res # "Ok")
          => txn'.be = txn.be]_vars

\* C3: if a successful create, modify or delete of the transaction had a
\* candidate of class classtype or attributetype, commit runs reload_schema,
\* whatever was done later in the transaction.
C3_SchemaTouchedThenReloaded ==
    (lastcommit.res # "none" /\ lastcommit.touched_schema)
        => Committed(lastcommit.reloads, "schema")

\* C4: at commit reload_accesscontrols runs after reload_schema whenever that
\* ran, and whenever a successful create, modify or delete of the transaction
\* had a candidate of class access_control_profile, in whatever order the
\* operations came; it does not run when neither holds.
C4_AcpReloadedIffTouched ==
    lastcommit.res # "none" =>
        /\ Committed(lastcommit.reloads, "schema")
              => lastcommit.reloads = <<"schema", "accesscontrols">>
        /\ lastcommit.touched_acp => Committed(lastcommit.reloads, "accesscontrols")
        /\ Committed(lastcommit.reloads, "accesscontrols")
              => (lastcommit.touched_acp \/ Committed(lastcommit.reloads, "schema"))

\* C5: commit is all or nothing over the schema, the access controls and the
\* backend: whatever it returns, all three are committed or none is.
C5_CommitAllOrNothing ==
    lastcommit.res # "none" =>
        \/ lastcommit.order = <<>>
        \/ /\ Committed(lastcommit.order, "schema")
           /\ Committed(lastcommit.order, "accesscontrols")
           /\ Committed(lastcommit.order, "be_txn")

\* C9: a successful delete removes no entry: every matched entry is still
\* stored with the same uuid, with class recycled added and last_modified_cid
\* set to the CID of the transaction, every other entry is untouched, and the
\* backend operation issued is a modify.
C9_DeleteRecycles ==
    [][(Called /\ last'.op = "delete" /\ last'.res = "Ok") =>
          /\ last'.beop = "modify"
          /\ last'.uuids # {}
          /\ Cardinality(txn'.be) = Cardinality(txn.be)
          /\ \A e \in txn.be :
                IF e.uuid \in last'.uuids
                THEN [e EXCEPT !.class = @ \cup {"recycled"}, !.cid = txn.cid]
                        \in txn'.be
                ELSE e \in txn'.be]_vars

\* C9 happens: a delete has just succeeded on a live person, which is stored
\* as recycled.
C9_Witness ==
    /\ last.op = "delete"
    /\ last.res = "Ok"
    /\ \E e \in txn.be :
          /\ e.uuid \in last.uuids
          /\ {"person", "recycled"} \subseteq e.class
          /\ e.cid = txn.cid

\* The external modify requests C10 tries.
ExtModLists == ModLists \ {<<>>}

WithModlist(ev, ml) ==
    [origin |-> ev.origin, scope |-> ev.scope, filter |-> ev.filter,
     filter_orig |-> ev.filter_orig, modlist |-> ml]

IsRecycled(e) == "recycled" \in e.class /\ "tombstone" \notin e.class
IsTombstone(e) == "tombstone" \in e.class

\* C10: a recycled entry is returned by no external search and touched by no
\* external modify or delete, and is returned by the recycle-bin search of a
\* requester whose filter and access cover it; a tombstone is returned by
\* neither kind of search; both are returned by an internal search with an
\* all-entries filter.
C10_HiddenEntries ==
    txn.open =>
        \A e \in txn.be : (IsRecycled(e) \/ IsTombstone(e)) =>
            /\ \A s \in Scopes, f \in Leaves :
                  /\ e \notin search(txn, new_impersonate_entry(s, f))
                  /\ IsTombstone(e) => e \notin search(txn, new_rec_impersonate_entry(s, f))
                  /\ (IsRecycled(e) /\ LeafMatch(f, e) /\ e.uuid \in s)
                        => e \in search(txn, new_rec_impersonate_entry(s, f))
            /\ \A f \in Leaves :
                  LeafMatch(f, e) => e \in internal_search(txn, filter_all(f))
            /\ \A s \in Scopes, f \in OpLeaves :
                  /\ e \in delete(txn, new_impersonate_entry(s, f), "none").t.be
                  /\ \A ml \in ExtModLists :
                        e \in modify(txn, WithModlist(new_impersonate_entry(s, f), ml),
                                     "none").t.be

\* C10 happens: a recycled person and a tombstone are stored, the recycle-bin
\* search returns the first and an external delete of every object succeeds
\* on neither.
C10_Witness ==
    /\ txn.open
    /\ \E e \in txn.be, x \in txn.be :
          /\ IsRecycled(e)
          /\ IsTombstone(x)
          /\ search(txn, new_rec_impersonate_entry(Uuids, f_class("person"))) = {e}
          /\ delete(txn, new_impersonate_entry(Uuids, f_class("object")), "none").res
                = "NoMatchingEntries"

\* ----------------------------------------------------- properties of SpecTxn
IsPrefix(s, t) == Len(s) <= Len(t) /\ SubSeq(t, 1, Len(s)) = s

Reverse(s) == [i \in 1..Len(s) |-> s[Len(s) + 1 - i]]

IsArcPart(p) == p \in {"entry_cache", "idl_cache", "db"}

\* The handle of the query server a part belongs to.
QsHandle(p) == IF IsArcPart(p) THEN "be_txn" ELSE p

\* The handles of the query server in the order of their first part in seq.
RECURSIVE QsOrder(_)
QsOrder(seq) ==
    IF seq = <<>> THEN <<>>
    ELSE LET r == QsOrder(SubSeq(seq, 1, Len(seq) - 1))
             h == QsHandle(seq[Len(seq)])
         IN IF \E i \in 1..Len(r) : r[i] = h THEN r ELSE Append(r, h)

\* The version storage state h holds of entry id (0: no such entry).
Stored(h, id) == IF cache_hit(h.db, id) THEN h.db[id] ELSE 0

\* C2: everything an open read transaction has returned, entries and posting
\* lists, comes from one committed state: it never combines the cache of one
\* snapshot with the storage of another.
C2_ReadsOneSnapshot ==
    rpc = "open" =>
        \E h \in hist :
            /\ \A o \in robs.ents : Stored(h, o[1]) = o[2]
            /\ \A l \in robs.idls : l = h.idl

\* C6: the query server commits in the order schema, access controls,
\* backend, and that is the reverse of the order in which QueryServer::write
\* acquired the three handles.
C6_CommitReversesAcquisition ==
    \A w \in Writers :
        /\ IsPrefix(QsOrder(clog[w]), <<"schema", "accesscontrols", "be_txn">>)
        /\ Len(QsOrder(clog[w])) = Len(CommitOrder)
              => QsOrder(clog[w]) = Reverse(QsOrder(wacq[w]))

\* C6 as amended: the query server commits in the order schema, access
\* controls, backend; QueryServer::write acquired the handles in the order
\* schema, backend, access controls, of which the commit order is not the
\* reverse.
C6_CommitAndAcquisitionOrder ==
    \A w \in Writers :
        /\ IsPrefix(QsOrder(clog[w]), <<"schema", "accesscontrols", "be_txn">>)
        /\ IsPrefix(QsOrder(wacq[w]), <<"schema", "be_txn", "accesscontrols">>)
        /\ Len(QsOrder(clog[w])) = Len(CommitOrder)
              => QsOrder(clog[w]) # Reverse(QsOrder(wacq[w]))

\* C6 happens: a writer acquired every handle and committed all three.
C6_Witness ==
    \E w \in Writers :
        /\ Len(wacq[w]) = Len(WriteOrder)
        /\ QsOrder(clog[w]) = <<"schema", "accesscontrols", "be_txn">>
        /\ wres[w] = "Ok"

\* The published caches hold nothing but what committed storage holds: every
\* cached entry is the stored entry, every cached posting list the stored
\* list.
CachesCoherent ==
    /\ \A id \in DOMAIN entry_cache : cache_hit(sdb, id) /\ entry_cache[id] = sdb[id]
    /\ \A k \in DOMAIN idl_cache : sidl = <<idl_cache[k]>>

\* The step publishes a cache.
CachePublished == entry_cache' # entry_cache \/ idl_cache' # idl_cache

\* The storage commit of writer w has succeeded in the commit it is in.
StorageCommitted(w) ==
    /\ wpc[w] = "commit"
    /\ wres[w] # "Backend"
    /\ \E i \in 1..Len(clog[w]) : clog[w][i] = "db"

\* C7: a backend write transaction acquires the entry cache, the IDL cache,
\* then storage; it commits storage first and the caches only after a
\* successful storage commit; a failed storage commit ends the transaction
\* with neither cache committed; so that outside a running commit no read
\* transaction is given a cached entry or a cached posting list that
\* committed storage does not hold.
C7_StorageBeforeCaches ==
    [][/\ \A w \in Writers :
            /\ IsPrefix(SelectSeq(wacq'[w], IsArcPart),
                        <<"entry_cache", "idl_cache", "db">>)
            /\ IsPrefix(SelectSeq(clog'[w], IsArcPart),
                        <<"db", "idl_cache", "entry_cache">>)
            /\ wres'[w] = "Backend" => SelectSeq(clog'[w], IsArcPart) = <<>>
            /\ (wres'[w] = "Backend" /\ wres[w] # "Backend")
                  => (wpc'[w] = "idle" /\ ~CachePublished)
       /\ CachePublished =>
            \E w \in Writers :
                /\ StorageCommitted(w)
                /\ entry_cache' \in {entry_cache, wtx[w].ec}
                /\ idl_cache' \in {idl_cache, wtx[w].ic}
       /\ (\A w \in Writers : wpc'[w] # "commit") => CachesCoherent'
      ]_vars

IsOpen(w) == wpc[w] \in {"open", "commit"}

\* C8: at most one write transaction is open; while one is open and not yet
\* committing, no other writer holds a handle or can take one; no step of a
\* read transaction is ever disabled by a writer.
C8_OneWriterReadersFree ==
    /\ Cardinality({w \in Writers : IsOpen(w)}) <= 1
    /\ \A w \in Writers : wpc[w] = "open" =>
          \A x \in Writers \ {w} : wpc[x] = "idle" /\ ~ENABLED Acquire(x)
    /\ (rpc = "acquiring" \/ (rpc = "idle" /\ nreads < MaxReads))
          => ENABLED ReadAcquire
    /\ rpc = "open" =>
          /\ ENABLED ReadClose
          /\ ENABLED GetIdentryAllIds
          /\ \A id \in ArcIds : ENABLED GetIdentry(id)
          /\ \A k \in IdxKeys : ENABLED GetIdl(k)

\* C8 happens: a writer is open and has written, the other writer has a
\* transaction to begin and cannot, and a reader is taking its snapshots.
C8_Witness ==
    \E w \in Writers :
        /\ wpc[w] = "open"
        /\ wtx[w].nops > 0
        /\ ntxn < MaxTxn
        /\ ~ENABLED Acquire(Other(w))
        /\ rpc = "acquiring"
        /\ ENABLED ReadAcquire

\* ---------------------------------------------------- properties of SpecLife
\* C11: purge_recycled in a transaction with timestamp txn.cid turns a
\* recycled entry into a tombstone of the same uuid if and only if its
\* last_modified_cid is older than txn.cid - RECYCLEBIN_MAX_AGE; every other
\* entry, recycled or not, is stored unchanged afterwards.
C11_PurgeRecycledWindow ==
    [][(Called /\ last'.op = "purge_recycled") =>
          /\ Cardinality(txn'.be) = Cardinality(txn.be)
          /\ \A e \in txn.be :
                IF "recycled" \in e.class /\ e.cid < txn.cid - RECYCLEBIN_MAX_AGE
                THEN /\ e \notin txn'.be
                     /\ \E x \in txn'.be :
                           /\ x.uuid = e.uuid
                           /\ x.class = {"tombstone", "object"}
                ELSE e \in txn'.be]_vars

\* C11 happens: purge_recycled has just made a tombstone of one recycled
\* person and left a younger recycled person in the recycle bin.
C11_Witness ==
    /\ last.op = "purge_recycled"
    /\ last.res = "Ok"
    /\ \E x \in txn.be, y \in txn.be :
          /\ IsTombstone(x) /\ x.uuid \in last.uuids
          /\ IsRecycled(y) /\ y.cid >= txn.cid - RECYCLEBIN_MAX_AGE

\* C12: purge_tombstones in a transaction with timestamp txn.cid removes
\* exactly the tombstones whose last_modified_cid is older than
\* txn.cid - CHANGELOG_MAX_AGE: a tombstone inside the window and every entry
\* that is not a tombstone are still stored afterwards.
C12_PurgeTombstonesWindow ==
    [][(Called /\ last'.op = "purge_tombstones") =>
          txn'.be = {e \in txn.be :
                        ~("tombstone" \in e.class
                            /\ e.cid < txn.cid - CHANGELOG_MAX_AGE)}]_vars

\* C12 happens: purge_tombstones has just removed a tombstone, and a tombstone
\* inside the window is still stored.
C12_Witness ==
    /\ last.op = "purge_tombstones"
    /\ last.res = "Ok"
    /\ last.beop = "delete"
    /\ \A e \in txn.be : e.uuid \notin last.uuids
    /\ \E x \in txn.be : IsTombstone(x) /\ x.cid >= txn.cid - CHANGELOG_MAX_AGE

Recycleds(ents) == {e \in ents : IsRecycled(e)}
Tombstones(ents) == {e \in ents : IsTombstone(e)}

\* purge_recycled is called at T + RECYCLEBIN_MAX_AGE + 1 on entries deleted
\* at T: no recycled entry is left and each has become a tombstone tagged
\* with the time of the purge.
S2_PurgeRecycledStep ==
    (/\ Called
     /\ last'.op = "purge_recycled"
     /\ Recycleds(txn.be) # {}
     /\ \A e \in Recycleds(txn.be) : txn.cid = e.cid + RECYCLEBIN_MAX_AGE + 1)
    => /\ Recycleds(txn'.be) = {}
       /\ Cardinality(Tombstones(txn'.be)) =
             Cardinality(Tombstones(txn.be)) + Cardinality(Recycleds(txn.be))
       /\ \A e \in Recycleds(txn.be) : \E x \in Tombstones(txn'.be) :
             x.uuid = e.uuid /\ x.cid = txn.cid

\* purge_tombstones is called at T + RECYCLEBIN_MAX_AGE + CHANGELOG_MAX_AGE + 1
\* on tombstones that purge_recycled made at T + RECYCLEBIN_MAX_AGE + 1.
S2_PurgeTombstonesCall ==
    /\ Called
    /\ last'.op = "purge_tombstones"
    /\ Tombstones(txn.be) # {}
    /\ \A x \in Tombstones(txn.be) : txn.cid = x.cid + CHANGELOG_MAX_AGE

\* C13 as stated: for an entry created and deleted at T, purge_recycled at
\* T + RECYCLEBIN_MAX_AGE + 1 leaves zero recycled entries and one tombstone,
\* and purge_tombstones at T + RECYCLEBIN_MAX_AGE + CHANGELOG_MAX_AGE + 1
\* leaves zero tombstones.
C13_S2PurgedAtWindowEnd ==
    [][/\ S2_PurgeRecycledStep
       /\ S2_PurgeTombstonesCall => Tombstones(txn'.be) = {}]_vars

\* C13, amended: for an entry created and deleted at T, purge_recycled at
\* T + RECYCLEBIN_MAX_AGE + 1 leaves zero recycled entries and one tombstone,
\* whose last_modified_cid is the time of that purge; purge_tombstones at
\* T + RECYCLEBIN_MAX_AGE + CHANGELOG_MAX_AGE + 1 still leaves the tombstone
\* stored, and purge_tombstones at any later time leaves zero tombstones.
C13_S2Lifecycle ==
    [][/\ S2_PurgeRecycledStep
       /\ S2_PurgeTombstonesCall => Tombstones(txn'.be) = Tombstones(txn.be)
       /\ (/\ Called
           /\ last'.op = "purge_tombstones"
           /\ \A x \in Tombstones(txn.be) : txn.cid > x.cid + CHANGELOG_MAX_AGE)
          => Tombstones(txn'.be) = {}]_vars

\* C13 happens: a tombstone made at RECYCLEBIN_MAX_AGE + 1 of an entry
\* deleted at 0 is committed, and purge_tombstones has just run at
\* RECYCLEBIN_MAX_AGE + CHANGELOG_MAX_AGE + 1 and left it stored.
C13_Witness ==
    /\ last.op = "purge_tombstones"
    /\ last.res = "Ok"
    /\ txn.cid = RECYCLEBIN_MAX_AGE + CHANGELOG_MAX_AGE + 1
    /\ \E x \in Tombstones(be) :
          /\ x.cid = RECYCLEBIN_MAX_AGE + 1
          /\ x \in txn.be

\* The stored entry of a uuid, as a set.
ByUuid(ents, u) == {e \in ents : e.uuid = u}

\* C16: for any live entry, a delete followed by a revive_recycled of the
\* same entry returns it to the live state: it is stored as before apart
\* from its last_modified_cid, an ordinary external search returns it, a
\* recycle-bin search does not, and purge_recycled at no later time takes it.
C16_ReviveUndoesDelete ==
    txn.open =>
        \A e \in {x \in txn.be : IsLive(x)} :
            \A de \in {new_impersonate_entry(Uuids, f_uuid(e.uuid)),
                        new_internal(filter_hidden(f_uuid(e.uuid)))} :
                LET d == delete(txn, de, "none")
                    r == revive_recycled(
                             d.t, new_rec_impersonate_entry(Uuids, f_uuid(e.uuid)), "none")
                IN /\ d.res = "Ok"
                   /\ ByUuid(d.t.be, e.uuid) = {[e EXCEPT !.class = @ \cup {"recycled"},
                                                           !.cid = txn.cid]}
                   /\ r.res = "Ok"
                   /\ ByUuid(r.t.be, e.uuid) = {[e EXCEPT !.cid = txn.cid]}
                   /\ \A x \in ByUuid(r.t.be, e.uuid) :
                         /\ x \in search(r.t, new_impersonate_entry(Uuids, f_uuid(e.uuid)))
                         /\ x \notin search(r.t, new_rec_impersonate_entry(
                                                     Uuids, f_uuid(e.uuid)))
                         /\ \A ts \in LifeTimes :
                               x \in purge_recycled([r.t EXCEPT !.cid = ts]).t.be

\* C16 happens: an entry that was committed as recycled has just been revived
\* in the open transaction and is live there.
C16_Witness ==
    /\ last.op = "revive_recycled"
    /\ last.res = "Ok"
    /\ \E x \in txn.be, y \in be :
          /\ x.uuid \in last.uuids
          /\ y.uuid = x.uuid
          /\ IsRecycled(y)
          /\ IsLive(x)
          /\ x \in search(txn, new_impersonate_entry(Uuids, f_class("person")))

\* The modify requests C17 and C18 try: every wrapper around the leaves of
\* the lifecycle requests and class = tombstone, from the server itself and
\* from users with full and with partial search access.
ModifyLeaves == LifeLeaves \cup {f_class("tombstone")}

AllModifyEvents ==
    {new_internal(f) : f \in {filter_all(l) : l \in ModifyLeaves}
                               \cup {filter_hidden(l) : l \in ModifyLeaves}}
    \cup {new_impersonate_entry(sc, l) : sc \in Scopes, l \in ModifyLeaves}
    \cup {new_rec_impersonate_entry(sc, l) : sc \in Scopes, l \in ModifyLeaves}

NonEmptyModLists == {<<m_pres("object")>>, <<m_remove("recycled")>>}

\* C17: modify with an empty modification list returns EmptyRequest for
\* every filter and every origin, whether or not the filter matches and
\* whether or not the access check would refuse, and changes nothing.
C17_EmptyModlistRefused ==
    txn.open =>
        \A ev \in AllModifyEvents, fp \in FailPoints :
            modify(txn, WithModlist(ev, <<>>), fp) = Ret(txn, "EmptyRequest", "none", {})

\* C17 happens: a modify with an empty list has just been refused on a
\* transaction that stores a live entry.
C17_Witness ==
    /\ last.op = "modify"
    /\ last.res = "EmptyRequest"
    /\ \E e \in txn.be : IsLive(e)

\* C18: a modify with a non-empty modification list whose filter matches no
\* visible entry changes nothing; it returns Ok when the origin is internal
\* and NoMatchingEntries for every other origin.
C18_NoMatchModify ==
    txn.open =>
        \A ev \in AllModifyEvents, ml \in NonEmptyModLists, fp \in LifeFailPoints :
            search(txn, ev) = {} =>
                modify(txn, WithModlist(ev, ml), fp) =
                    Ret(txn, IF ev.origin = "Internal" THEN "Ok" ELSE "NoMatchingEntries",
                        "none", {})

\* C18 happens: an internal modify has just matched nothing, the only stored
\* entries being hidden from its filter, and returned Ok without a write.
C18_Witness ==
    /\ last.op = "modify"
    /\ last.res = "Ok"
    /\ last.beop = "none"
    /\ txn.be # {}
    /\ txn.be = be

\* The external requests C19 tries.
UserEvents == {new_impersonate_entry(sc, l) : sc \in Scopes, l \in ModifyLeaves}

UserCreates ==
    {[origin |-> "User", entries |-> {new_entry(u, cls, {}) : u \in us}] :
        us \in (SUBSET Uuids) \ {{}}, cls \in LifeClassSets}

\* C19: when the access check does not allow the candidate set of a create,
\* modify or delete, the operation returns AccessDenied and the transaction
\* is exactly as before: no change identifier was assigned, no plugin ran
\* and nothing was written, so no entry is created, modified or recycled.
C19_AccessCheckedFirst ==
    txn.open =>
        /\ \A ce \in UserCreates :
              create(txn, ce, "acp") = Ret(txn, "AccessDenied", "none", {})
        /\ \A ev \in UserEvents :
              search(txn, ev) # {} =>
                  /\ delete(txn, ev, "acp") = Ret(txn, "AccessDenied", "none", {})
                  /\ \A ml \in NonEmptyModLists :
                        modify(txn, WithModlist(ev, ml), "acp")
                            = Ret(txn, "AccessDenied", "none", {})

\* C19 happens: an external delete has just been refused by the access check
\* and the person it asked for is still live, as committed.
C19_Witness ==
    /\ last.op = "delete"
    /\ last.res = "AccessDenied"
    /\ last.beop = "none"
    /\ \E e \in txn.be : IsLive(e) /\ e \in be

\* The search of test_qs_create_user: filter!(f_eq("name", nm)), which ignores
\* recycled entries and tombstones, through SearchEvent::new_impersonate_entry.
SearchByName(t, nm) == search(t, new_impersonate_entry(Uuids, f_name(nm)))

CreateOf(o, u, cls) == [origin |-> o, entries |-> {new_entry(u, cls, {})}]

\* The create of one entry of name nm.
CreateNamed(o, u, cls, nm) ==
    [origin |-> o, entries |-> {new_named_entry(u, cls, nm)}]

C14_ReviveRestoresMemberships ==
    [][(Called /\ last'.op = "revive_recycled" /\ last'.res = "Ok") =>
          \A e \in {x \in txn.be : IsRecycled(x) /\ x.uuid \in last'.uuids} :
              /\ \A x \in ByUuid(txn'.be, e.uuid) : "recycled" \notin x.class
              /\ ByUuid(txn'.be, e.uuid) # {}
              /\ \A g \in {y \in txn.be : IsLive(y) /\ y.uuid \in e.directmemberof} :
                    /\ \A h \in ByUuid(txn'.be, g.uuid) : e.uuid \in h.member
                    /\ \A x \in ByUuid(txn'.be, e.uuid) :
                          all_groups(txn'.be, {g.uuid}, Cardinality(RUuids))
                              \subseteq x.memberof]_vars

\* C14 happens: user 1 has just been revived; group 2 holds it again and
\* group 3 holds group 2, and the user's memberof has both.
C14_Witness ==
    /\ last.op = "revive_recycled"
    /\ last.res = "Ok"
    /\ 1 \in last.uuids
    /\ \E u \in txn.be, g \in txn.be, h \in txn.be :
          /\ u.uuid = 1 /\ IsLive(u)
          /\ g.uuid = 2 /\ IsLive(g) /\ 1 \in g.member
          /\ h.uuid = 3 /\ IsLive(h) /\ 2 \in h.member
          /\ u.directmemberof = {2}
          /\ u.memberof = {2, 3}

ReviveOf(t, l) == revive_recycled(t, new_rec_impersonate_entry(RUuids, l), "none")
DeleteOf(t, l) == delete(t, new_internal(filter_hidden(l)), "none")

\* The transactions in which the live user u and its live direct group g have
\* both been recycled: u first, g first, or both by one delete.
BothRecycled(t, u, g) ==
    {DeleteOf(DeleteOf(t, f_uuid(u)).t, f_uuid(g)).t,
     DeleteOf(DeleteOf(t, f_uuid(g)).t, f_uuid(u)).t,
     DeleteOf(t, f_class("object")).t}

MemberOfAfter(t, u) == UNION {x.memberof : x \in ByUuid(t.be, u)}

\* C15: when a user and its direct group are both recycled, the user's
\* memberof is without that group after the user alone is revived, after the
\* user and the group are revived by one revive_recycled, and after the group
\* is revived by a later call than the user.
C15_RecycledGroupNotRestored ==
    txn.open =>
        \A u \in {x \in txn.be : IsLive(x) /\ ~IsGroup(x)} :
            \A g \in {y \in txn.be : IsLive(y) /\ IsGroup(y)
                                        /\ y.uuid \in u.directmemberof} :
                \A d \in BothRecycled(txn, u.uuid, g.uuid) :
                    LET alone == ReviveOf(d, f_uuid(u.uuid))
                        both == ReviveOf(d, f_class("object"))
                        later == ReviveOf(alone.t, f_uuid(g.uuid))
                    IN /\ alone.res = "Ok" /\ both.res = "Ok" /\ later.res = "Ok"
                       /\ \A x \in ByUuid(alone.t.be, u.uuid)
                                \cup ByUuid(both.t.be, u.uuid)
                                \cup ByUuid(later.t.be, u.uuid) : IsLive(x)
                       /\ \A x \in ByUuid(both.t.be, g.uuid)
                                \cup ByUuid(later.t.be, g.uuid) : IsLive(x)
                       /\ g.uuid \notin MemberOfAfter(alone.t, u.uuid)
                       /\ g.uuid \notin MemberOfAfter(both.t, u.uuid)
                       /\ g.uuid \notin MemberOfAfter(later.t, u.uuid)

\* C15 happens: group 2 has just been revived after user 1, which it held
\* before both were deleted; both are live and the user is not in the group.
C15_Witness ==
    /\ last.op = "revive_recycled"
    /\ last.res = "Ok"
    /\ last.uuids = {2}
    /\ \E u \in txn.be, g \in txn.be :
          /\ u.uuid = 1 /\ IsLive(u)
          /\ g.uuid = 2 /\ IsLive(g)
          /\ 1 \notin g.member
          /\ u.memberof = {}

\* ------------------------------------------- properties of the dynamic schema
\* The entry of test_qs_dynamic_schema_class that uses the class a classtype
\* entry defines.
TestObj(u) == new_entry(u, {"object", "testclass"}, {})

\* The defining entry is stored and live.
ClassDefined(ents) == \E e \in ents : IsLive(e) /\ attribute_value_pres(e, "classtype")

\* validation of the transaction accepts the class, and a create of a new
\* entry that uses it is not refused with SchemaViolation.
ClassAccepted(t) ==
    /\ \A u \in Uuids : validate(assign_cid(TestObj(u), t.cid), t.schema)
    /\ \A u \in Uuids :
          create(t, [origin |-> "Internal", entries |-> {TestObj(u)}], "none").res
              # "SchemaViolation"

ClassRejected(t) ==
    \A u \in Uuids :
        create(t, [origin |-> "Internal", entries |-> {TestObj(u)}], "none").res
            = "SchemaViolation"

\* C21: a class defined by a classtype entry created in write transaction W is
\* not accepted inside W; after a commit that returned Ok, the next write
\* transaction accepts the class when the defining entry is stored, and
\* rejects it with SchemaViolation when the defining entry has been deleted.
C21_SchemaFollowsCommittedEntries ==
    /\ (txn.open /\ ~ClassDefined(be) /\ lastcommit.res = "none" /\ nwrites = 1)
          => ClassRejected(txn)
    /\ (~txn.open /\ lastcommit.res = "Ok") =>
          IF ClassDefined(be) THEN ClassAccepted(write(0)) ELSE ClassRejected(write(0))

\* C22: in every committed state every stored entry validates against the
\* committed schema, also after a committed schema change that deleted a
\* class definition stored entries use.
C22_StoredEntriesValidate ==
    (~txn.open /\ committing = NoCommitting) => \A e \in be : validate(e, schema)

\* The entry has only classes the schema defines.
Conforms(e, sch) == e.class \subseteq KnownClasses(sch)

\* What each handler returns on transaction t for the requests of SpecSchema
\* (purge_recycled at a time past the recycle window).
HandlerResults(t) ==
    {create(t, [origin |-> "Internal", entries |-> {new_entry(u, cls, {})}], "none") :
        u \in Uuids, cls \in SchemaClassSets}
    \cup {delete(t, new_internal(filter_hidden(l)), "none") : l \in SchemaModifyLeaves}
    \cup {internal_modify(t, filter_hidden(l), ml) :
              l \in SchemaModifyLeaves, ml \in SchemaModLists}
    \cup {purge_recycled([t EXCEPT !.cid = MaxTime])}

\* The results of modifying the entries a filter matches.
ModifiedBy(t, l, ml) ==
    {apply_modlist(invalidate(e, t.cid), ml) : e \in internal_search(t, filter_hidden(l))}

\* C23: create, modify, delete and purge_recycled write to the backend only
\* entries that passed schema validation; a modify whose result would violate
\* the schema returns SchemaViolation and leaves the transaction unchanged,
\* and a later modify of the same entries whose result is valid succeeds.
C23_ValidatedBeforeWrite ==
    txn.open =>
        /\ \A r \in HandlerResults(txn) :
              \A e \in r.t.be \ txn.be : Conforms(e, txn.schema)
        /\ \A l \in SchemaModifyLeaves, bad \in SchemaModLists :
              (\E e \in ModifiedBy(txn, l, bad) : ~Conforms(e, txn.schema)) =>
                  LET r == internal_modify(txn, filter_hidden(l), bad) IN
                  /\ r.res = "SchemaViolation"
                  /\ r.t = txn
                  /\ \A good \in SchemaModLists :
                        (\A e \in ModifiedBy(txn, l, good) : Conforms(e, txn.schema))
                            => internal_modify(r.t, filter_hidden(l), good).res = "Ok"

\* C23 happens: a modify that adds a class the schema does not know has just
\* been refused, and the person it matched is stored without that class.
C23_Witness ==
    /\ last.op = "modify"
    /\ last.res = "SchemaViolation"
    /\ \E e \in txn.be :
          /\ IsLive(e)
          /\ attribute_value_pres(e, "person")
          /\ ~attribute_value_pres(e, "testclass")
    /\ \A e \in txn.be : Conforms(e, txn.schema)

\* No two entries of the set share a uuid.
UniqueUuids(ents) == \A x, y \in ents : x.uuid = y.uuid => x = y

\* C24: no two stored entries share a uuid; a create whose entry has the uuid
\* of a stored entry, live, recycled or tombstone, fails and leaves the
\* transaction, the stored entry included, as it was.
C24_UuidsUnique ==
    /\ UniqueUuids(be)
    /\ txn.open =>
          /\ UniqueUuids(txn.be)
          /\ \A o \in Origins, u \in Uuids, cls \in LifeClassSets, fp \in LifeFailPoints :
                (\E x \in txn.be : x.uuid = u) =>
                    LET r == create(txn, CreateOf(o, u, cls), fp) IN
                    /\ r.res # "Ok"
                    /\ r.t = txn

\* A create was refused by the pre_create plugins while every stored entry
\* was recycled: the uuid it asked for is the uuid of a recycled entry, as in
\* test_qs_recycle_advanced.
C24_Witness ==
    /\ last.op = "create"
    /\ last.res = "Plugin"
    /\ last.beop = "none"
    /\ txn.be # {}
    /\ \A e \in txn.be : IsRecycled(e)

\* ---------------------------------------------------- properties of SpecNames
\* The live entries of the set whose name, lower-cased, is the string
\* lower-cased.
LiveNamed(ents, str) ==
    {e \in ents : /\ "recycled" \notin e.class
                  /\ "tombstone" \notin e.class
                  /\ HasName(e)
                  /\ to_lowercase(e.name) = to_lowercase(str)}

RefAttrs == {a \in AttrStrings : to_lowercase(a) \in {"uuid", "member"}}

\* C25: clone_value on a uuid or reference attribute never fails: a string
\* that parses as a uuid yields that uuid, stored or not; any other string
\* yields the uuid of the single live entry of that name, and yields
\* UUID_DOES_NOT_EXIST when no live entry has the name, the entries of that
\* name in the recycle bin notwithstanding. An attribute name the schema does
\* not have yields InvalidAttributeName.
C25_CloneValue ==
    txn.open =>
        \A v \in ValueStrings :
            /\ clone_value(txn, "tausau", v).res = "InvalidAttributeName"
            /\ \A a \in RefAttrs :
                  LET r == clone_value(txn, a, v)
                      m == LiveNamed(txn.be, v)
                  IN /\ r.res = "Ok"
                     /\ (v \in UuidStrings) => r.uuid = new_uuids(v)
                     /\ (v \notin UuidStrings /\ Cardinality(m) = 1) =>
                            \E e \in m : r.uuid = e.uuid
                     /\ (v \notin UuidStrings /\ m = {}) => r.uuid = UUID_DOES_NOT_EXIST

\* clone_value was asked for the member of a name that only an entry in the
\* recycle bin has, and answered with UUID_DOES_NOT_EXIST.
C25_Witness ==
    /\ last.op = "clone_value"
    /\ last.attr = "Member"
    /\ last.res = "Ok"
    /\ last.uuids = {UUID_DOES_NOT_EXIST}
    /\ \E e \in txn.be :
          "recycled" \in e.class /\ HasName(e) /\ e.name = last.arg

\* name_to_uuid on transaction t answers by the number of live entries of
\* the name.
NameToUuidByCount(t) ==
    \A str \in NameStrings :
        LET m == LiveNamed(t.be, str)
            r == name_to_uuid(t, str)
        IN /\ (m = {}) => r.res = "NoMatchingEntries"
           /\ (Cardinality(m) = 1) => (r.res = "Ok" /\ \E e \in m : r.uuid = e.uuid)
           /\ (Cardinality(m) >= 2) => r.res = "InvalidDBState"

\* The named entries a backend may hold besides the ones the plugins let in.
ForeignEntries(t) ==
    {assign_cid(new_named_entry(u, {"object", "person"}, nm), t.cid) :
        u \in {x \in LookupUuids : \A e \in t.be : e.uuid # x}, nm \in CreateNames}

\* C26: name_to_uuid compares the whole name without regard to case: the
\* uuid when exactly one live entry has the name, NoMatchingEntries when
\* none has, InvalidDBState when two or more have (a backend that holds an
\* entry the uniqueness plugin has not seen); uuid_to_name answers Ok(None)
\* for a uuid no live entry has, the uuids of recycled entries and
\* tombstones included.
C26_NameLookups ==
    txn.open =>
        /\ NameToUuidByCount(txn)
        /\ \A d \in ForeignEntries(txn) :
              NameToUuidByCount([txn EXCEPT !.be = be_create(@, {d})])
        /\ \A u \in LookupUuids :
              (\A e \in txn.be :
                  e.uuid = u => ("recycled" \in e.class \/ "tombstone" \in e.class))
              => uuid_to_name(txn, u).res = "None"

\* name_to_uuid was asked for tEsTpErSoN1 and answered with the uuid of the
\* live entry named testperson1, while the other entry, recycled or a
\* tombstone, has no name to give.
C26_Witness ==
    /\ last.op = "name_to_uuid"
    /\ last.res = "Ok"
    /\ last.arg = "tEsTpErSoN1"
    /\ \E e \in txn.be :
          /\ "recycled" \notin e.class /\ "tombstone" \notin e.class
          /\ HasName(e) /\ e.name = "testperson1"
          /\ last.uuids = {e.uuid}
    /\ \E x \in txn.be :
          /\ ("recycled" \in x.class \/ "tombstone" \in x.class)
          /\ uuid_to_name(txn, x.uuid).res = "None"

\* ---------------------------------------------------- properties of SpecCache
\* The cache holds an empty posting list for the key.
HitEmpty(ic, k) == cache_hit(ic, k) /\ ic[k] = {}

\* get_idl on transaction t returns the empty posting list, from the cache,
\* without asking the storage transaction and without touching the cache.
EmptyFromCache(t, k) ==
    /\ get_idl(t, k).r = <<{}>>
    /\ ~get_idl_from_db(t, k)
    /\ get_idl(t, k).t = t

\* The step is a backend operation of writer w that leaves its transaction
\* as t.
OpStep(w, t) == wpc[w] = "open" /\ wtx'[w] = [t EXCEPT !.nops = @ + 1]

\* The step writes the key's posting list anew, or purges the indexes.
Rewrites(w, k) ==
    \/ \E idl \in Idls \ {{}} : OpStep(w, write_idl(wtx[w], k, idl))
    \/ OpStep(w, purge_idxs(wtx[w]))

\* The step is idl_cache.commit() of writer w.
IdlCacheCommitted(w) ==
    /\ Committing(w)
    /\ Head(CurPlan(w)) = "idl_cache"
    /\ clog'[w] = Append(clog[w], "idl_cache")

\* The step is idl_cache.read() of the reader.
IdlCacheRead ==
    /\ rpc \in {"idle", "acquiring"}
    /\ rpc' # "idle"
    /\ Len(rtx'.acq) = 2
    /\ rtx'.acq[2] = "idl_cache"
    /\ (rpc = "idle" \/ Len(rtx.acq) = 1)

\* C27: write_idl with an empty posting list leaves the key in the cache of
\* the write transaction with an empty list; until the transaction writes
\* the key again or purges the indexes, get_idl is answered from the cache,
\* empty, with no storage lookup; idl_cache.commit() publishes that cache and
\* nothing else changes the published cache; a read transaction that takes
\* its snapshot of a published cache holding the empty list is answered from
\* it, empty, with no storage lookup, as long as it lives.
C27_EmptyIdlCached ==
    [][\A k \in IdxKeys :
        /\ \A w \in Writers :
              /\ OpStep(w, write_idl(wtx[w], k, {})) => EmptyFromCache(wtx'[w], k)
              /\ (/\ HitEmpty(wtx[w].ic, k)
                  /\ wtx[w].id # 0
                  /\ wtx'[w].id = wtx[w].id
                  /\ ~Rewrites(w, k)) => EmptyFromCache(wtx'[w], k)
              /\ (IdlCacheCommitted(w) /\ HitEmpty(wtx[w].ic, k))
                    => HitEmpty(idl_cache', k)
        /\ (idl_cache' # idl_cache) => \E w \in Writers : IdlCacheCommitted(w)
        /\ (IdlCacheRead /\ HitEmpty(idl_cache, k)) => EmptyFromCache(rtx', k)
        /\ (rpc # "idle" /\ rpc' # "idle" /\ Len(rtx.acq) >= 2 /\ HitEmpty(rtx.ic, k))
              => EmptyFromCache(rtx', k)
      ]_vars

\* The latest backend operation was write_idl with an empty posting list, in
\* a write transaction that followed one which had committed the list {1};
\* it has committed, and a read transaction opened since got the empty list
\* from its cache.
C27_Witness ==
    /\ last.op = "write_idl"
    /\ last.uuids = {}
    /\ \E h \in hist : h.idl = <<{1}>>
    /\ wpc[CacheWriter] = "idle"
    /\ wres[CacheWriter] = "Ok"
    /\ sidl = <<{}>>
    /\ HitEmpty(idl_cache, "k")
    /\ rpc = "open"
    /\ HitEmpty(rtx.ic, "k")
    /\ robs.idls = {<<{}>>}

\* The elements of a sequence.
Range(seq) == {seq[n] : n \in 1..Len(seq)}

\* What the storage transaction of t holds for the ids.
StoredEntries(t, idl) == {<<i, t.db[i]>> : i \in {x \in idl : x \in DOMAIN t.db}}

\* C28: in an open write transaction, whatever operations it has run,
\* get_identry for a set of ids returns the entries the storage transaction
\* holds for these ids, each once; it asks storage for the ids that are not
\* in the cache and for no other, and what storage returns is in the cache
\* afterwards; get_idl returns the posting list the storage transaction
\* holds.
C28_CacheEqualsStorage ==
    \A w \in Writers : wpc[w] = "open" =>
        /\ \A idl \in SUBSET ArcIds :
              LET g == get_identry_idl(wtx[w], idl) IN
              /\ Range(g.result) = StoredEntries(wtx[w], idl)
              /\ Len(g.result) = Cardinality(StoredEntries(wtx[w], idl))
              /\ g.nidl = idl \ DOMAIN wtx[w].ec
              /\ \A i \in g.nidl \cap DOMAIN wtx[w].db :
                    cache_hit(g.t.ec, i) /\ g.t.ec[i] = wtx[w].db[i]
              /\ g.t.db = wtx[w].db
        /\ \A k \in IdxKeys :
              /\ get_idl(wtx[w], k).r = wtx[w].idl
              /\ get_idl(wtx[w], k).t.idl = wtx[w].idl

\* ----------------------------------------------------- properties of SpecInit
\* What initialise_helper runs, in order, with the index version it asks for.
ExpectedOps ==
    <<"upgrade_reindex", "initialise_schema_core", "initialise_schema_idm",
      "upgrade_reindex", "initialise_idm">>
ExpectedVersions == <<SYSTEM_INDEX_VERSION, 0, 0, SYSTEM_INDEX_VERSION + 1, 0>>
EventOrder == <<"write", "run", "commit">>

\* The uuids the backend holds once the first n steps have committed.
CommittedUuids(n) ==
    (IF n >= 2 THEN {1} ELSE {}) \cup (IF n >= 3 THEN {2} ELSE {})
        \cup (IF n >= 5 THEN {3, 4} ELSE {})

\* The commits initialise_helper has got Ok from.
CommitsOk == Cardinality({i \in 1..Len(ih.log) :
                            ih.log[i].ev = "commit" /\ ih.log[i].res = "Ok"})

\* C29: initialise_helper opens a write transaction, runs a step in it and
\* commits it, for upgrade_reindex(V), initialise_schema_core,
\* initialise_schema_idm, upgrade_reindex(V + 1), initialise_idm in this
\* order; no transaction is opened before the commit of the one before it
\* has returned; a step or a commit that fails is the last thing it does, its
\* transaction is gone, and what the earlier steps committed is in the
\* backend (inside a commit, what it has committed so far as well).
C29_HelperOrder ==
    /\ Len(ih.log) <= 3 * Len(ExpectedOps)
    /\ \A i \in 1..Len(ih.log) :
          LET k == ((i - 1) \div 3) + 1
              ph == ((i - 1) % 3) + 1
          IN /\ ih.log[i].ev = EventOrder[ph]
             /\ ih.log[i].op = ExpectedOps[k]
             /\ ih.log[i].v = ExpectedVersions[k]
             /\ (i < Len(ih.log)) => ih.log[i].res = "Ok"
    /\ (ih.st = "failed") =>
          /\ ih.log[Len(ih.log)].res # "Ok"
          /\ ~txn.open
    /\ (ih.st \in {"open", "ran"}) => (txn.open /\ txn.cid = ih.ts)
    /\ (ih.st \in {"idle", "committed", "failed", "writing", "committing"}) =>
          ~txn.open
    /\ (ih.st = "writing") =>
          (txn.acq > 0 /\ txn.cid = ih.ts /\ committing = NoCommitting)
    /\ (ih.st = "committing") <=> (ih.st # "done" /\ committing # NoCommitting)
    /\ (ih.st # "committing") => ({e.uuid : e \in be} = CommittedUuids(CommitsOk))
    /\ (ih.st = "committing") =>
          ({e.uuid : e \in be} \in
              {CommittedUuids(CommitsOk), CommittedUuids(CommitsOk + 1)})
    /\ (ih.st = "done") <=> (CommitsOk = Len(ExpectedOps))

\* The second upgrade_reindex has failed: initialise_helper has returned,
\* the two schema transactions are committed, the IDM entries are not there.
C29_Witness ==
    /\ ih.st = "failed"
    /\ ih.pc = 4
    /\ ih.log[Len(ih.log)].ev = "run"
    /\ {e.uuid : e \in be} = {1, 2}
    /\ ~txn.open

\* The committed entries after initialise_helper(ts) alone.
InitialisedAt(ts) ==
    {assign_cid(CoreSchemaEntries[1], ts), assign_cid(IdmSchemaEntries[1], ts),
     assign_cid(IdmEntries[1], ts), assign_cid(IdmEntries[2], ts)}

\* C30: on an initialised server initialise_schema_core and initialise_idm
\* succeed in every write transaction, whatever ran before in it or in
\* earlier transactions, committed or dropped; the transaction commits; and
\* the committed entries are the ones the first initialisation left.
C30_InitIdempotent ==
    (ih.st = "done") =>
        /\ txn.open =>
              /\ initialise_schema_core(txn).res = "Ok"
              /\ initialise_idm(txn).res = "Ok"
              /\ commit(txn, TRUE, TRUE).res = "Ok"
        /\ be = InitialisedAt(ih.ts)

\* -------------------------------------------------- properties of SpecMigrate
\* The step is a call of internal_migrate_or_create with e.
MigStep(e) ==
    /\ txn.open
    /\ nops' = nops + 1
    /\ last'.op = "internal_migrate_or_create"
    /\ last'.entry = e

\* The entries of the transaction with the uuid u, hidden ones included.
WithUuid(t, u) == {x \in t.be : x.uuid = u}

\* x2 is x with the classes cls made present: no class is gone, and the name
\* and the members are the ones of x.
AssertedOver(x, x2, cls) ==
    /\ x2.uuid = x.uuid
    /\ x2.class = x.class \cup cls
    /\ x2.member = x.member
    /\ HasName(x2) = HasName(x)
    /\ HasName(x) => x2.name = x.name

\* A second entry with the uuid u, put into the backend behind the server.
MigForeign(t, u) ==
    [t EXCEPT !.be = @ \cup {assign_cid(new_entry(u, {"object", "foreign"}, {}), t.cid)}]

\* C31: internal_migrate_or_create(e) returns FilterGeneration and changes
\* nothing when e has no uuid; creates e when no entry has its uuid; when one
\* entry has it, an Ok call leaves that entry with the classes of e present,
\* no class, name or member of it removed, and every other entry as it was;
\* and returns InvalidDBState, changing nothing, when two entries have it.
C31_MigrateOrCreate ==
    [][\A e \in MigEntries :
        /\ MigStep(e) =>
              /\ (e.uuid = NotAUuid) =>
                    (last'.res = "FilterGeneration" /\ txn'.be = txn.be)
              /\ (e.uuid # NotAUuid /\ WithUuid(txn, e.uuid) = {}) =>
                    /\ last'.res \in {"Ok", "SchemaViolation"}
                    /\ (last'.res = "Ok") =>
                          /\ last'.beop = "create"
                          /\ txn'.be = txn.be \cup {assign_cid(e, txn.cid)}
                    /\ (last'.res # "Ok") => txn'.be = txn.be
              /\ (Cardinality(WithUuid(txn, e.uuid)) = 1) =>
                    /\ last'.res \in {"Ok", "SchemaViolation"}
                    /\ (last'.res = "Ok") =>
                          /\ last'.beop = "modify"
                          /\ \A x \in WithUuid(txn, e.uuid) :
                                \E x2 \in txn'.be : AssertedOver(x, x2, e.class)
                          /\ Cardinality(txn'.be) = Cardinality(txn.be)
                          /\ \A y \in txn.be : y.uuid # e.uuid => y \in txn'.be
                    /\ (last'.res # "Ok") => txn'.be = txn.be
        /\ (txn.open /\ e.uuid # NotAUuid /\ WithUuid(txn, e.uuid) # {}) =>
              LET t2 == MigForeign(txn, e.uuid)
                  r == internal_migrate_or_create(t2, e)
              IN r.res = "InvalidDBState" /\ r.t = t2
      ]_vars

\* internal_migrate_or_create has asserted a group over a stored person that
\* has a name: the entry is a person and a group now, and keeps its name.
C31_Witness ==
    /\ txn.open
    /\ last.op = "internal_migrate_or_create"
    /\ last.res = "Ok"
    /\ last.beop = "modify"
    /\ last.entry.class = {"object", "group"}
    /\ \E x \in txn.be :
          /\ x.uuid = last.entry.uuid
          /\ x.class = {"object", "person", "group"}
          /\ HasName(x)

\* --------------------------------------- properties of SpecSchema (reload)
\* The entries of class c that are neither recycled nor tombstones.
LiveOf(t, c) ==
    {e \in t.be : c \in e.class /\ "recycled" \notin e.class /\ "tombstone" \notin e.class}

\* A live class definition names an attribute that no live attribute
\* definition defines.
Dangling(t) ==
    /\ \E e \in LiveOf(t, "classtype") : HasMay(e) /\ e.may \cap DynAttrs # {}
    /\ LiveOf(t, "attributetype") = {}

\* The step is the call of commit() on the open transaction, and what that
\* commit returns: at once on an error of the reloads or of the validation,
\* after its parts otherwise.
QsCommitStep == txn.open /\ (lastcommit'.res # "none" \/ committing' # NoCommitting)
QsCommitResult == IF committing' # NoCommitting THEN committing'.result.res
                  ELSE lastcommit'.res

\* C32: a commit that reloads the schema and finds a class definition with a
\* dangling attribute fails with ConsistencyError; a commit that fails so
\* leaves the committed schema, access controls and entries as they were,
\* and the next write transaction starts from them.
C32_InvalidSchemaAborts ==
    [][/\ QsCommitStep =>
            /\ (txn.changed_schema /\ Dangling(txn))
                  => QsCommitResult = "ConsistencyError"
            /\ (QsCommitResult = "ConsistencyError") =>
                  /\ be' = be
                  /\ schema' = schema
                  /\ accesscontrols' = accesscontrols
                  /\ committing' = NoCommitting
                  /\ txn' = NoTxn
       /\ (~txn.open /\ txn'.open) =>
            /\ txn'.be = be
            /\ txn'.schema = schema
            /\ txn'.acp = accesscontrols
      ]_vars

\* The attribute definition that a committed class definition names was
\* deleted in a later transaction, and its commit has failed: both entries
\* are still committed and live.
C32_Witness ==
    /\ lastcommit.res = "ConsistencyError"
    /\ ~txn.open
    /\ LiveOf([be |-> be], "attributetype") # {}
    /\ \E e \in LiveOf([be |-> be], "classtype") : HasMay(e)
    /\ schema.may = DynAttrs

\* ------------------------------------------------- properties of SpecInterval
Purges == {"PurgeRecycledEvent", "PurgeTombstoneEvent"}

\* The step is the interval actor sending the purge message ev.
IntervalSends(ev) ==
    /\ Len(mbox') = Len(mbox) + 1
    /\ mbox'[Len(mbox')].ev = ev

\* The step is the write server running the operation of its message.
HandlerRuns == cur # NoMessage /\ last.op = "none" /\ last'.op # "none"

\* C33: started, the interval actor sends one PurgeRecycledEvent and one
\* PurgeTombstoneEvent every PURGE_FREQUENCY seconds, and sending changes
\* the mailbox only: no transaction, no entry; each purge is run by the
\* write server in a write transaction, and through the plugins as a create
\* or a delete: no operation writes to the backend and returns Ok where a
\* plugin refuses.
C33_PurgesThroughWritePath ==
    [][/\ \A ev \in Purges : IntervalSends(ev) =>
            /\ UNCHANGED <<qsvars, arcvars, unixvars, clock, cur>>
            /\ \E k \in DOMAIN due : due[k] = clock /\ due'[k] = clock + PURGE_FREQUENCY
       /\ (due # NotStarted) =>
            \A k \in DOMAIN due : clock <= due[k] /\ due[k] <= clock + PURGE_FREQUENCY
       /\ HandlerRuns =>
            /\ txn.open
            /\ (last'.fp # "none" /\ last'.res = "Ok") => last'.beop = "none"
      ]_vars

\* The numbers of the model stay small, whatever time has passed.
IntervalTypeOK ==
    /\ clock \in 0..(2 * MaxAge)
    /\ \A x \in be \cup txn.be \cup committing.be : x.cid \in 0..clock
    /\ Len(mbox) <= MaxMailbox
    /\ cur = NoMessage \/ txn.acq > 0 \/ committing # NoCommitting

\* ------------------------------------------------ change identifiers (SpecInit)
\* C34: the CID of a write transaction is not smaller than the CID of a
\* write transaction of the same server opened before it: the transaction
\* that is open carries at least the CID the transactions of the earlier
\* initialise_helper carried, and at least the CID of every committed entry.
C34_CidMonotonic ==
    txn.open =>
        /\ (ih.pc > 0) => txn.cid >= ih.ts
        /\ \A e \in be : txn.cid >= e.cid

\* ------------------------------------------------------ properties of SpecCid
CidWriters == {"create", "modify", "delete", "purge_recycled"}

\* The step is a successful create, modify, delete or purge_recycled.
WriterStep ==
    /\ txn.open
    /\ nops' = nops + 1
    /\ last'.op \in CidWriters
    /\ last'.res = "Ok"

\* The entry of t with the uuid of e, as a set.
Same(t, e) == {x \in t.be : x.uuid = e.uuid}

\* x is e but for the reference attributes the plugins maintain and the CID.
PluginRewrite(e, x, cid) ==
    /\ x = [e EXCEPT !.member = x.member, !.memberof = x.memberof,
                     !.directmemberof = x.directmemberof, !.cid = cid]
    /\ x # e

\* C35 as stated: an entry the step has written carries the CID of the
\* transaction, and an entry the operation did not match keeps its CID.
C35_CidOfWriter ==
    [][WriterStep =>
        /\ \A x \in txn'.be \ txn.be : x.cid = txn.cid
        /\ \A x \in txn'.be : (x.uuid \in last'.uuids) => x.cid = txn.cid
        /\ \A e \in txn.be : (e.uuid \notin last'.uuids) =>
              \A x \in Same(txn', e) : x.cid = e.cid
      ]_vars

\* C35, amended: an entry the step has written carries the CID of the
\* transaction; an entry the operation did not match is still there, and it
\* is as it was, CID included, unless a plugin has rewritten its reference
\* attributes, and then it carries the CID of the transaction as well.
C35_CidOfWriterOrPlugin ==
    [][WriterStep =>
        /\ \A x \in txn'.be \ txn.be : x.cid = txn.cid
        /\ \A x \in txn'.be : (x.uuid \in last'.uuids) => x.cid = txn.cid
        /\ \A e \in txn.be : (e.uuid \notin last'.uuids) =>
              /\ Same(txn', e) # {}
              /\ \A x \in Same(txn', e) : x = e \/ PluginRewrite(e, x, txn.cid)
      ]_vars

\* A group was created in a later transaction than its member: the create
\* matched the group only, and the member, written by memberof, carries the
\* CID of the later transaction too.
C35_Witness ==
    /\ txn.open
    /\ last.op = "create"
    /\ last.res = "Ok"
    /\ last.uuids = {2}
    /\ txn.cid > 0
    /\ \E e \in be : e.uuid = 1 /\ e.cid = 0
    /\ \E x \in txn.be : x.uuid = 1 /\ x.cid = txn.cid /\ x.memberof = {2}

\* ------------------------------------------------------------------ SpecUnix
\* The calls the tests make on the cache layer and, through the admin
\* client, on the server, in any order.

\* The keys an online response has carried: a token carries the account, its
\* ssh keys and its groups; the answer to a group lookup carries the group.
Carried(op, nm, r) ==
    IF r.resp # "found" THEN {}
    ELSE IF op = "get_nssgroup_name" THEN {<<"group", nm>>}
    ELSE {<<"account", nm>>, <<"sshkeys", nm>>}
         \cup {<<"group", g>> : g \in idm_account_unix_token(idmserver, nm).groups}

\* The keys the call itself has asked the server for, and was given.
Fetched(op, nm, r) ==
    IF r.resp # "found" THEN {}
    ELSE IF op = "get_nssgroup_name" THEN {<<"group", nm>>}
    ELSE {<<"account", nm>>, <<"sshkeys", nm>>}

\* The keys the server has answered not to exist.
Gone(op, nm, r) ==
    IF r.resp # "notfound" THEN {}
    ELSE IF op = "get_nssgroup_name" THEN {<<"group", nm>>}
    ELSE {<<"account", nm>>, <<"sshkeys", nm>>, <<"group", nm>>}

\* What the server's response says of key k: the account, its keys, or the
\* name of the group.
Answer(k, tok) ==
    IF k[1] = "account" THEN {[name |-> tok.name, gidnumber |-> tok.gidnumber]}
    ELSE IF k[1] = "sshkeys" THEN tok.sshkeys
    ELSE {k[2]}

UnixCall(op, nm, r) ==
    LET got == Carried(op, nm, r)
        tok == idm_account_unix_token(idmserver, nm)
    IN  /\ unixlog.n < MaxUnixOps
        /\ cachelayer' = r.cl
        /\ unixlog' =
             [n |-> unixlog.n + 1, op |-> op, name |-> nm,
              state |-> cachelayer.state, res |-> r.res, auth |-> r.auth,
              fetched |-> unixlog.fetched \cup Fetched(op, nm, r),
              carried |-> unixlog.carried \cup got,
              fresh |-> (unixlog.fresh \ Gone(op, nm, r)) \cup got,
              seen |-> [k \in UnixKeys |->
                          IF k \in got THEN Answer(k, tok) ELSE unixlog.seen[k]],
              cleared |-> unixlog.cleared /\ cachelayer.state = "Offline"]
        /\ UNCHANGED idmserver
        /\ UNCHANGED <<qsvars, arcvars, actorvars>>

\* A call that returns nothing: op has left the cache layer as cl.
UnixSet(op, cl, fresh, cleared) ==
    /\ unixlog.n < MaxUnixOps
    /\ cachelayer' = cl
    /\ unixlog' = [unixlog EXCEPT !.n = @ + 1, !.op = op, !.name = "none",
                                  !.state = cachelayer.state, !.res = {},
                                  !.auth = "none", !.fresh = fresh,
                                  !.cleared = cleared]
    /\ UNCHANGED idmserver
    /\ UNCHANGED <<qsvars, arcvars, actorvars>>

UnixMarkOffline ==
    UnixSet("mark_offline", mark_offline(cachelayer), unixlog.fresh,
            unixlog.cleared)

UnixAttemptOnline ==
    UnixSet("attempt_online", attempt_online(cachelayer), unixlog.fresh,
            unixlog.cleared)

UnixInvalidate ==
    UnixSet("invalidate", CacheLayer_invalidate(cachelayer), {},
            unixlog.cleared)

UnixClearCache == UnixSet("clear_cache", clear_cache(cachelayer), {}, TRUE)

UnixGetAccount(a) ==
    UnixCall("get_nssaccount_name", a,
             get_nssaccount_name(cachelayer, idmserver, a))

UnixGetSshkeys(a) ==
    UnixCall("get_sshkeys", a, get_sshkeys(cachelayer, idmserver, a))

UnixGetGroup(g) ==
    UnixCall("get_nssgroup_name", g,
             get_nssgroup_name(cachelayer, idmserver, g))

UnixAuthenticate(a, pw) ==
    UnixCall("pam_account_authenticate", a,
             pam_account_authenticate(cachelayer, idmserver, a, pw))

UnixAllowed(a) ==
    UnixCall("pam_account_allowed", a,
             pam_account_allowed(cachelayer, idmserver, a))

\* The admin client changes the server; the cache layer is not told.
UnixAdmin(op, srv) ==
    /\ unixlog.n < MaxUnixOps
    /\ srv # idmserver
    /\ idmserver' = srv
    /\ unixlog' = [unixlog EXCEPT !.n = @ + 1, !.op = op, !.name = "none",
                                  !.state = cachelayer.state, !.res = {},
                                  !.auth = "none"]
    /\ UNCHANGED cachelayer
    /\ UNCHANGED <<qsvars, arcvars, actorvars>>

UnixGroupDelete(g) == UnixAdmin("idm_group_delete", idm_group_delete(idmserver, g))

UnixAccountDelete(a) ==
    UnixAdmin("idm_account_delete", idm_account_delete(idmserver, a))

UnixGroupAddMembers(g, a) ==
    /\ g \in idmserver.groups
    /\ a \in idmserver.accounts
    /\ UnixAdmin("idm_group_add_members", idm_group_add_members(idmserver, g, a))

UnixCredPut(a, pw) ==
    /\ a \in idmserver.accounts
    /\ UnixAdmin("idm_account_unix_cred_put",
                 idm_account_unix_cred_put(idmserver, a, pw))

UnixNext ==
    \/ UnixMarkOffline
    \/ UnixAttemptOnline
    \/ UnixInvalidate
    \/ UnixClearCache
    \/ \E a \in UnixAccounts : UnixGetAccount(a)
    \/ \E a \in UnixAccounts : UnixGetSshkeys(a)
    \/ \E g \in UnixGroupNames : UnixGetGroup(g)
    \/ \E a \in UnixAccounts, pw \in UnixPasswords : UnixAuthenticate(a, pw)
    \/ \E a \in UnixAccounts : UnixAllowed(a)
    \/ \E g \in pam_allow_groups, a \in UnixAccounts : UnixGroupAddMembers(g, a)
    \/ \E g \in UnixGroups : UnixGroupDelete(g)
    \/ \E a \in UnixAccounts : UnixAccountDelete(a)
    \/ \E a \in UnixAccounts : UnixCredPut(a, "B")

SpecUnix == Init /\ [][UnixNext]_vars

\* --------------------------------------------------- properties of SpecUnix
\* The last call was the lookup of key k, made while the layer was offline.
OfflineLookup(k) ==
    /\ unixlog.op \in UnixLookups
    /\ unixlog.state = "Offline"
    /\ KeyOf(unixlog.op, unixlog.name) = k

\* The answer is what the online response said of the key (of a group: the
\* group; its member list follows the cached accounts).
AsSeen(k) ==
    IF k[1] = "group"
    THEN {t.name : t \in unixlog.res} = unixlog.seen[k]
    ELSE unixlog.res = unixlog.seen[k]

OfflineAuthAfterClear ==
    (/\ unixlog.op = "pam_account_authenticate"
     /\ unixlog.state = "Offline"
     /\ unixlog.cleared) => unixlog.auth = "None"

\* C36, as stated: offline, what no lookup has fetched from the server while
\* online is absent; what an online response has carried since the cache was
\* last cleared or invalidated is returned as it was; and an authentication
\* after clear_cache returns None.
C36_OfflineFromCache ==
    /\ \A k \in UnixKeys :
          OfflineLookup(k) =>
             /\ (k \notin unixlog.fetched) => unixlog.res = {}
             /\ (k \in unixlog.fresh) => AsSeen(k)
    /\ OfflineAuthAfterClear

\* C36, amended: a group is in the cache as soon as the token of one of its
\* members is, without a lookup of its own; offline, what no online response
\* has carried is absent.
C36_OfflineFromCarried ==
    /\ \A k \in UnixKeys :
          OfflineLookup(k) =>
             /\ (k \notin unixlog.carried) => unixlog.res = {}
             /\ (k \in unixlog.fresh) => AsSeen(k)
    /\ OfflineAuthAfterClear

\* Offline, the group of an account that was looked up online is returned,
\* with the account as its member, and the group was never looked up online.
C36_Witness ==
    /\ OfflineLookup(<<"group", "testgroup1">>)
    /\ <<"group", "testgroup1">> \notin unixlog.fetched
    /\ <<"group", "testgroup1">> \in unixlog.fresh
    /\ \E t \in unixlog.res : t.members = {"testaccount1"}

\* ---------------------------------------------------------------- SpecDelete
\* One write transaction in which live entries, recycled entries and
\* tombstones are created, as test_qs_recycle_simple and test_qs_tombstone
\* create them, and deletes and modifies of every origin are aimed at them.
DelClassSets ==
    { {"object", "person"},
      {"object", "person", "recycled"},
      {"tombstone", "object"} }

DelWrite == WriteN(0, 1)

DelCreate(u, cls) == Create("Internal", "none", u, cls)

DelNext ==
    \/ DelWrite
    \/ \E u \in Uuids, cls \in DelClassSets : DelCreate(u, cls)
    \/ \E de \in DeleteEvents, fp \in FailPoints : Delete(de, fp)
    \/ \E ev \in OpEvents, ml \in ModLists, fp \in FailPoints : Modify(ev, ml, fp)
    \/ Abort

SpecDelete == Init /\ [][DelNext]_vars

\* ------------------------------------------- properties of delete, no match
\* The entries the leaf of the event's filter names, hidden ones included.
AimedAt(t, ev) == {e \in t.be : LeafMatch(ev.filter.f, e)}

IsHidden(e) == "recycled" \in e.class \/ "tombstone" \in e.class

\* The filter of the event names entries, and all of them are hidden.
AimedAtHidden(t, ev) ==
    /\ AimedAt(t, ev) # {}
    /\ \A e \in AimedAt(t, ev) : IsHidden(e)

\* The step is an operation of the open transaction that has failed and has
\* left the transaction as it was.
FailedUnchanged ==
    /\ last'.res \notin {"Ok", "none"}
    /\ last'.beop = "none"
    /\ txn' = txn
    /\ be' = be

\* C37: a delete whose filter matches no entry the requester can see, the
\* requester being internal or a user, returns NoMatchingEntries, or
\* AccessDenied where access control refuses the request, and changes
\* nothing; an external delete or modify whose filter names only recycled
\* entries and tombstones fails and changes nothing.
C37_DeleteNoMatch ==
    [][(txn.open /\ nops' = nops + 1) =>
        /\ (last'.op = "delete") =>
              \A de \in DeleteEvents, fp \in FailPoints :
                 (/\ \/ impersonate_search_valid(txn, de) = {}
                     \/ de.origin = "User" /\ AimedAtHidden(txn, de)
                  /\ Delete(de, fp)) =>
                    /\ FailedUnchanged
                    /\ (impersonate_search_valid(txn, de) = {}) =>
                          last'.res =
                             IF de.origin # "Internal" /\ fp = "acp"
                             THEN "AccessDenied" ELSE "NoMatchingEntries"
        /\ (last'.op = "modify" /\ ~FailedUnchanged) =>
              \A ev \in OpEvents, ml \in ModLists, fp \in FailPoints :
                 (ev.origin = "User" /\ AimedAtHidden(txn, ev)) =>
                    ~Modify(ev, ml, fp)
      ]_vars

\* An internal delete has matched nothing where the only entry is recycled.
C37_Witness ==
    /\ txn.open
    /\ last.op = "delete"
    /\ last.res = "NoMatchingEntries"
    /\ txn.be # {}
    /\ \A e \in txn.be : "recycled" \in e.class

\* ------------------------------------------------------- SpecIntervalFair
\* SpecInterval under the scheduling of actix: time passes, an interval that
\* is due fires, and the write server handles the messages of its mailbox
\* one after the other, each to its end. A commit can fail; the commit of a
\* purge, which is tried again with the next message of its interval, does
\* not fail for ever.
IntervalActorStep ==
    \/ IntervalStarted
    \/ IntervalPurgeRecycled
    \/ IntervalPurgeTombstones

WriteServerStep ==
    \/ HandleWrite
    \/ \E fp \in PluginFailPoints : HandleRun(fp)
    \/ \E acp_ok, be_ok \in BOOLEAN : HandleCommit(acp_ok, be_ok)

IntervalFairness ==
    /\ WF_vars(Tick)
    /\ WF_vars(IntervalActorStep)
    /\ WF_vars(WriteServerStep)
    /\ SF_vars(cur.ev = "PurgeRecycledEvent" /\ last.op # "none"
                  /\ HandleCommit(TRUE, TRUE))
    /\ SF_vars(cur.ev = "PurgeTombstoneEvent" /\ last.op # "none"
                  /\ HandleCommit(TRUE, TRUE))

SpecIntervalFair == SpecInterval /\ IntervalFairness

\* Storage holds entry u in the recycle bin.
RecycledIn(u) == \E x \in be : x.uuid = u /\ "recycled" \in x.class

\* Storage holds the tombstone of entry u.
TombstoneIn(u) == \E x \in be : x.uuid = u /\ "tombstone" \in x.class

\* The entry is live again: a revive has taken it out of the recycle bin.
Revived(u) ==
    \E x \in be : x.uuid = u /\ ~IsHidden(x)

\* Storage holds no entry u.
Removed(u) == \A x \in be : x.uuid # u

UuidsOf(t) == {e.uuid : e \in t.be}

\* The tombstones the step has found are tombstones after it, unless they
\* are gone.
TombstonesKept ==
    \A e \in txn.be : "tombstone" \in e.class =>
       \A x \in txn'.be : (x.uuid = e.uuid) => "tombstone" \in x.class

\* C39: only purge_tombstones takes an entry out of the backend, and what it
\* takes out was a tombstone; delete and purge_recycled take nothing out; and
\* an external delete, an external modify and a revive_recycled leave every
\* tombstone a tombstone.
C39_LifecycleForward ==
    [][(txn.open /\ nops' = nops + 1) =>
        /\ (UuidsOf(txn') # UuidsOf(txn)) =>
              \/ last'.op = "create" /\ UuidsOf(txn) \subseteq UuidsOf(txn')
              \/ /\ last'.op = "purge_tombstones"
                 /\ UuidsOf(txn') \subseteq UuidsOf(txn)
                 /\ \A e \in txn.be : (e.uuid \notin UuidsOf(txn')) =>
                       "tombstone" \in e.class
        /\ (~TombstonesKept) =>
              /\ last'.op # "revive_recycled"
              /\ \A de \in LifeDeleteEvents, fp \in LifeFailPoints :
                    (de.origin = "User") => ~LifeDelete(de, fp)
              /\ \A ev \in LifeModifyEvents, ml \in LifeModLists,
                       fp \in LifeFailPoints :
                    (ev.origin = "User") => ~LifeModify(ev, ml, fp)
      ]_vars

\* purge_tombstones has taken a tombstone out, and a tombstone that is not
\* old enough is still there.
C39_Witness ==
    /\ txn.open
    /\ last.op = "purge_tombstones"
    /\ last.beop = "delete"
    /\ last.uuids # {}
    /\ \E e \in txn.be : "tombstone" \in e.class

\* ------------------------------------------------------ the order of handles
\* Writer w is in write() and the handle it asks for next is held by v.
WaitsFor(w, v) ==
    /\ wpc[w] = "acquiring"
    /\ wlock[NextPart(w, Len(wacq[w]))] = v

\* C40: a writer has taken its handles in the order schema, entry cache, IDL
\* cache, storage, access controls, and a backend reader its snapshots in the
\* order entry cache, IDL cache, storage; no two writers wait for a handle
\* the other holds, and a writer that waits, waits for one that does not.
C40_NoDeadlock ==
    /\ \A w \in Writers :
          (wpc[w] \in {"acquiring", "open"}) =>
             /\ IsPrefix(wacq[w],
                         <<"schema", "entry_cache", "idl_cache", "db",
                           "accesscontrols">>)
             /\ \A i \in 1..Len(wacq[w]) : wlock[wacq[w][i]] = w
    /\ (rpc \in {"acquiring", "open"}) =>
          /\ IsPrefix(rtx.acq, ReadOrder)
          /\ IsPrefix(<<"entry_cache", "idl_cache", "db">>, ReadOrder)
    /\ \A w \in Writers, v \in Writers :
          WaitsFor(w, v) => (v # w /\ ~WaitsFor(v, w) /\ wpc[v] # "idle")

\* A writer holds the schema and waits for the entry cache, which the other
\* writer, in the middle of its commit, still holds, while the reader is
\* taking its snapshots.
C40_Witness ==
    /\ WaitsFor(1, 2)
    /\ wlock["schema"] = 1
    /\ wpc[2] = "commit"
    /\ rpc = "acquiring"

====
